---- MODULE Spec2Model ----
(***************************************************************************)
(* Model of track17-rs: the shared CredentialCache (credential_cache.rs)   *)
(* and the polling loop of Track17Client::track_multiple (client.rs).      *)
(*                                                                         *)
(* SpecCache  : NTasks tasks calling refresh_credentials, invalidate and   *)
(*              get_valid_credentials on one CredentialCache.              *)
(* SpecClient : one Track17Client serving track_multiple calls against     *)
(*              arbitrary API responses.                                   *)
(***************************************************************************)
EXTENDS Integers, Sequences, FiniteSets, TLC

(* ---------------------------------------------------------------------- *)
(* Bounds of the model                                                     *)
(* ---------------------------------------------------------------------- *)
NTasks == 2
MaxCalls == 3
MaxTicks == 2
TickStep == 1800

(* js_fetcher.rs: JsAssets::is_fresh, 1 hour in seconds *)
TTL == 3600

Tasks == 1..NTasks

(* Option<T>: None is the empty tuple, Some(x) the one-element tuple *)
None == <<>>
Some(x) == <<x>>
IsSome(o) == o # <<>>
Unwrap(o) == o[1]

(* What the tracking page can serve: a sign module and its configs.md5 *)
Bundles == { [sign_module_js |-> "js1", configs_md5 |-> "md5a"],
             [sign_module_js |-> "js2", configs_md5 |-> "md5b"] }

VARIABLES
    (* CredentialCacheInner *)
    credentials,      \* Option<ApiCredentials>
    cached_assets,    \* Option<JsAssets>
    yq_bid,           \* device id generated by CredentialCache::new
    (* tokio::sync::RwLock around CredentialCacheInner *)
    rw_writer,        \* Option<task> holding the write guard
    rw_readers,       \* tasks holding a read guard
    (* the monotonic clock behind Instant::now / elapsed, in seconds *)
    now,
    (* per task: position in the operation it runs and its locals *)
    pc,
    t_assets,         \* local `assets` / `new_assets` of refresh_credentials
    t_yq_bid,         \* local `yq_bid` of refresh_credentials
    t_stored,         \* the running refresh_credentials call has stored a
                      \* bundle it fetched (line 153 or 164)
    t_invalidated,    \* an invalidate has completed since the running
                      \* refresh_credentials call started
    cred_invalidated, \* the stored credential was stored by a call during
                      \* which an invalidate completed
    t_sign,           \* local `sign` of refresh_credentials
    ret,              \* what the task's last call returned
    ret_config,       \* the LastEventIdConfig the task's last
                      \* generate_last_event_id_for_body call built, if any
    (* effects observed from outside *)
    calls,            \* calls started so far
    fetchCount,       \* fetch_js_assets calls made
    sandboxCount,     \* SignGenerator runs made
    generated         \* units (sign, yq_bid, configs_md5) a run produced

cacheVars == << credentials, cred_invalidated, cached_assets, yq_bid, rw_writer, rw_readers, now,
                pc, t_assets, t_yq_bid, t_stored, t_invalidated, t_sign, ret, ret_config, calls,
                fetchCount, sandboxCount, generated >>

(* ---------------------------------------------------------------------- *)
(* CredentialCache                                                         *)
(* ---------------------------------------------------------------------- *)

(* the age test with the bound included: assets of exactly one hour pass *)
is_freshInclusive(a) == now - a.fetched_at <= TTL

(* JsAssets::is_fresh *)
is_fresh(a) == now - a.fetched_at < TTL

(* the double-check never finding anything: every call refreshes *)
HasValidNever == FALSE

(* the condition of get_valid_credentials and of the double-check *)
HasValid == IsSome(credentials) /\ IsSome(cached_assets)
            /\ is_fresh(Unwrap(cached_assets))

(* get_valid_credentials, on the cache as it is *)
get_valid_credentials == IF HasValid THEN credentials ELSE None

NoRet == [op |-> "none", ok |-> FALSE, cred |-> None]

WriteFree == rw_writer = None /\ rw_readers = {}
ReadFree == rw_writer = None

CacheInit ==
    /\ credentials = None
    /\ cached_assets = None
    /\ yq_bid = "G-yq1"
    /\ rw_writer = None
    /\ rw_readers = {}
    /\ now = 0
    /\ pc = [t \in Tasks |-> "idle"]
    /\ t_assets = [t \in Tasks |-> None]
    /\ t_yq_bid = [t \in Tasks |-> ""]
    /\ t_stored = [t \in Tasks |-> FALSE]
    /\ t_invalidated = [t \in Tasks |-> FALSE]
    /\ cred_invalidated = FALSE
    /\ t_sign = [t \in Tasks |-> <<>>]
    /\ ret = [t \in Tasks |-> NoRet]
    /\ ret_config = [t \in Tasks |-> None]
    /\ calls = 0
    /\ fetchCount = 0
    /\ sandboxCount = 0
    /\ generated = {}

(* ---------------------------------------------------------------------- *)
(* Track17Client: state                                                    *)
(* ---------------------------------------------------------------------- *)

(* client.rs *)
INVALID_SIGN_CODE == -11
INVALID_SESSION_CODE == -14
PENDING_SHIPMENT_CODE == 100
NOT_FOUND_SHIPMENT_CODE == 400

(* the budget one round larger *)
MaxPendingRetriesPlusOne == 50 + 1

MAX_PENDING_RETRIES == 50

(* types.rs: mod carriers *)
AUTO == 0
FEDEX == 100003
UPS == 100001
USPS == 100002
DHL == 100005

(* Bounds of the client model *)
MaxInput == 2
MaxShipments == 2
MaxLog == 3
MaxExtra == 2
MaxMulti == 2

(* the tracking numbers callers and the API use *)
Numbers == {"A", "B"}

VARIABLES
    (* Track17Client *)
    client_credentials,  \* self.credentials: Option<ApiCredentials>
    credential_mutex,    \* TRUE while the guard of credential_mutex is held
    (* the running track_multiple call *)
    cpc,                 \* "idle", "extract_init", "extract_expired",
                         \* "await", "sleep", "returned"
    tracking_numbers,    \* argument
    carrier_code,        \* argument
    pending_retries,
    session_guid,
    items,               \* Vec<TrackingItem>
    final_shipments,     \* HashMap<String, Shipment>, absent keys map to None
    request,             \* the TrackingRequest sent last, if any
    result,              \* what the call returned
    response_meta,       \* meta.code of the response being handled, 0 if none
    response_guid,       \* guid of the response being handled, "" if none
    log                  \* the call's responses (meta codes) and credential
                         \* invalidations ("inv") in order; <<"many">> once
                         \* there are more than MaxLog

clientVars == << client_credentials, credential_mutex, cpc, tracking_numbers,
                 carrier_code, pending_retries, session_guid, items,
                 final_shipments, request, result, response_meta,
                 response_guid, log >>

(* one call of a helper function of the client on its own *)
VARIABLES
    arg_shipment,        \* Option<Shipment>: the argument of get_suggested_carrier
    ret_carrier          \* None before the call returns, then Some(Option<u32>)

(* one call of djb2 and of murmur_hash (last_event_id.rs) on their own.
   A string is the sequence of its code points; a 32-bit value is the pair
   << high half, low half >> of its 16-bit halves. *)
VARIABLES
    hash_arg,            \* the string argument
    hash_seed,           \* the `t` argument of murmur_hash
    djb2_ret,            \* None before the call returns, then Some(u32)
    murmur_ret           \* None before the call returns, then Some(u32)

hashVars == << hash_arg, hash_seed, djb2_ret, murmur_ret >>

(* two calls of generate_last_event_id (last_event_id.rs) with the same
   configuration, at the same millisecond *)
VARIABLES
    arg_bodies,          \* the request_body_json of the first and second call
    arg_config,          \* Option<LastEventIdConfig>
    arg_millis,          \* what SystemTime::now() gives, in 16-bit digits
    ret_last_event_id    \* per call: None before it returns, then Some(String)

lastEventIdVars == << arg_bodies, arg_config, arg_millis, ret_last_event_id >>

pureVars == << arg_shipment, ret_carrier, hashVars, lastEventIdVars >>

(* one run of extract_credentials (client.rs lines 176-235), step by step *)
VARIABLES
    config_proxy,        \* self.config.proxy: "none", "direct" (no username)
                         \* or "auth" (with a username)
    epc,                 \* "none" outside the steps of a run, "launch",
                         \* "extracting", "closing", "err"
    local_proxy_task,    \* the task of LocalProxy::run: "none", "running",
                         \* "aborted"
    browser,             \* "none", "running", "closed", "close_failed"
    handler_task,        \* "none", "running", "aborted"
    extract_result,      \* what do_extract_credentials gave, None before
    running_browsers     \* browsers launched and neither closed nor dropped

extractVars == << config_proxy, epc, local_proxy_task, browser, handler_task,
                  extract_result, running_browsers >>

vars == << cacheVars, clientVars, pureVars, extractVars >>

NoResult == [kind |-> "none", err |-> "", shipments |-> <<>>, guid |-> ""]
EmptyMap == [n \in Numbers |-> None]

ClientInit ==
    /\ client_credentials = None
    /\ credential_mutex = FALSE
    /\ cpc = "idle"
    /\ tracking_numbers = <<>>
    /\ carrier_code = AUTO
    /\ pending_retries = 0
    /\ session_guid = ""
    /\ items = <<>>
    /\ final_shipments = EmptyMap
    /\ request = None
    /\ result = NoResult
    /\ response_meta = 0
    /\ response_guid = ""
    /\ log = <<>>

HashIdle ==
    /\ hash_arg = <<>>
    /\ hash_seed = 0
    /\ djb2_ret = None
    /\ murmur_ret = None

LastEventIdIdle ==
    /\ arg_bodies = << <<>>, <<>> >>
    /\ arg_config = None
    /\ arg_millis = <<>>
    /\ ret_last_event_id = << None, None >>

(* no helper call of its own is running *)
PureIdle ==
    /\ arg_shipment = None
    /\ ret_carrier = None
    /\ HashIdle
    /\ LastEventIdIdle

(* no run of extract_credentials has been followed step by step *)
ExtractIdle ==
    /\ epc = "none"
    /\ local_proxy_task = "none"
    /\ browser = "none"
    /\ handler_task = "none"
    /\ extract_result = None
    /\ running_browsers = 0

Init == CacheInit /\ ClientInit /\ PureIdle /\ ExtractIdle /\ config_proxy = "none"

(* ---------------------------------------------------------------------- *)
(* CredentialCache: operations                                             *)
(* ---------------------------------------------------------------------- *)

(* the guard kept: nothing is released *)
ReleaseNever(t) == UNCHANGED << rw_writer, rw_readers >>

(* a guard goes out of scope (or is dropped): the task's hold on the RwLock
   ends *)
Release(t) ==
    /\ rw_writer' = IF rw_writer = Some(t) THEN None ELSE rw_writer
    /\ rw_readers' = rw_readers \ {t}

(* a call returns: its result goes to the caller and its locals are dropped *)
Return(t, r) ==
    /\ ret' = [ret EXCEPT ![t] = r]
    /\ pc' = [pc EXCEPT ![t] = "idle"]
    /\ t_assets' = [t_assets EXCEPT ![t] = None]
    /\ t_yq_bid' = [t_yq_bid EXCEPT ![t] = ""]
    /\ t_stored' = [t_stored EXCEPT ![t] = FALSE]
    /\ t_sign' = [t_sign EXCEPT ![t] = <<>>]

(* ---- refresh_credentials ------------------------------------------- *)

(* line 119: the call starts and its `self.inner.write().await` is granted *)
RefreshLock(t) ==
    /\ pc[t] = "idle"
    /\ calls < MaxCalls
    /\ WriteFree
    /\ rw_writer' = Some(t)
    /\ pc' = [pc EXCEPT ![t] = "r_check"]
    /\ calls' = calls + 1
    /\ UNCHANGED << credentials, cred_invalidated, cached_assets, yq_bid, rw_readers, now,
                    t_assets, t_yq_bid, t_stored, t_invalidated, t_sign, ret, fetchCount, sandboxCount,
                    generated >>
    /\ UNCHANGED << ret_config, clientVars, pureVars, extractVars >>

(* lines 121-167 up to the first await: the double-check, then either the
   reuse of fresh cached assets or drop(cache) before the fetch *)
RefreshCheck(t) ==
    /\ pc[t] = "r_check"
    /\ rw_writer = Some(t)
    /\ Release(t)
    /\ IF HasValid
         THEN /\ Return(t, [op |-> "refresh", ok |-> TRUE, cred |-> credentials])
              /\ UNCHANGED t_invalidated
         ELSE IF IsSome(cached_assets) /\ is_fresh(Unwrap(cached_assets))
           THEN /\ t_assets' = [t_assets EXCEPT ![t] = cached_assets]
                /\ t_yq_bid' = [t_yq_bid EXCEPT ![t] = yq_bid]
                /\ pc' = [pc EXCEPT ![t] = "r_v8"]
                /\ UNCHANGED << t_stored, t_invalidated, t_sign, ret >>
           ELSE /\ pc' = [pc EXCEPT ![t] = "r_fetch"]
                /\ UNCHANGED << t_assets, t_yq_bid, t_stored, t_invalidated, t_sign, ret >>
    /\ UNCHANGED << credentials, cred_invalidated, cached_assets, yq_bid, now, calls,
                    fetchCount, sandboxCount, generated >>
    /\ UNCHANGED << ret_config, clientVars, pureVars, extractVars >>

(* js_fetcher::fetch_js_assets: Err, or the bundle the site serves now *)
FetchOutcomes == {None} \cup { Some(b) : b \in Bundles }

(* lines 148-150 / 159-161: the fetch, awaited without the lock *)
FetchJsAssets(t, out) ==
    /\ pc[t] = "r_fetch"
    /\ fetchCount' = fetchCount + 1
    /\ IF IsSome(out)
         THEN /\ t_assets' = [t_assets EXCEPT ![t] =
                     Some([sign_module_js |-> Unwrap(out).sign_module_js,
                           configs_md5 |-> Unwrap(out).configs_md5,
                           fetched_at |-> now])]
              /\ pc' = [pc EXCEPT ![t] = "r_wait2"]
              /\ UNCHANGED << t_yq_bid, t_stored, t_invalidated, t_sign, ret >>
         ELSE /\ Return(t, [op |-> "refresh", ok |-> FALSE, cred |-> None])
              /\ t_invalidated' = [t_invalidated EXCEPT ![t] = FALSE]
    /\ UNCHANGED << credentials, cred_invalidated, cached_assets, yq_bid, rw_writer, rw_readers,
                    now, calls, sandboxCount, generated >>
    /\ UNCHANGED << ret_config, clientVars, pureVars, extractVars >>

(* lines 151 / 162: the write lock is taken again *)
RefreshLock2(t) ==
    /\ pc[t] = "r_wait2"
    /\ WriteFree
    /\ rw_writer' = Some(t)
    /\ pc' = [pc EXCEPT ![t] = "r_store_assets"]
    /\ UNCHANGED << credentials, cred_invalidated, cached_assets, yq_bid, rw_readers, now,
                    t_assets, t_yq_bid, t_stored, t_invalidated, t_sign, ret, calls, fetchCount,
                    sandboxCount, generated >>
    /\ UNCHANGED << ret_config, clientVars, pureVars, extractVars >>

(* lines 152-154 / 163-165, and the guard dropped at line 167 *)
RefreshStoreAssets(t) ==
    /\ pc[t] = "r_store_assets"
    /\ rw_writer = Some(t)
    /\ cached_assets' = t_assets[t]
    /\ t_stored' = [t_stored EXCEPT ![t] = TRUE]
    /\ UNCHANGED t_invalidated
    /\ t_yq_bid' = [t_yq_bid EXCEPT ![t] = yq_bid]
    /\ Release(t)
    /\ pc' = [pc EXCEPT ![t] = "r_v8"]
    /\ UNCHANGED << credentials, cred_invalidated, yq_bid, now, t_assets, t_sign, ret, calls,
                    fetchCount, sandboxCount, generated >>
    /\ UNCHANGED << ret_config, clientVars, pureVars, extractVars >>

(* js_runtime.rs line 717 *)
MAX_SIGN_LEN == 100000

(* what the script of one run does: it throws, or get_fingerprint leaves a
   result of some length *)
RawRuns ==
    { [kind |-> "throw", len |-> 0] }
    \cup { [kind |-> "result", len |-> l] :
               l \in { 0, 1, MAX_SIGN_LEN, MAX_SIGN_LEN + 1 } }

(* SignGenerator::generate_sign on run number n of module js *)
generate_sign(raw, n, js) ==
    IF raw.kind = "throw" THEN None
    ELSE IF raw.len <= 0 \/ raw.len > MAX_SIGN_LEN THEN None
    ELSE Some(<<n, js>>)

(* What one SignGenerator run that ends can give for run number n on module
   js: Err (script error, bad length, panic), Ok("") or Ok(sign) *)
SandboxOutcomes(n, js) ==
    { generate_sign(raw, n, js) : raw \in RawRuns } \cup { Some(<<>>) }

(* the emptiness check left out: every Ok(sign) is accepted *)
SignRejectedNever(sign) == FALSE

(* line 186: `if sign.is_empty() { bail }` *)
SignRejected(sign) == sign = <<>>

(* a failed run taking the bundle it ran on out of the cache again *)
GenerateSignRollsBack(t, out) ==
    /\ pc[t] = "r_v8"
    /\ sandboxCount' = sandboxCount + 1
    /\ IF IsSome(out) /\ ~SignRejected(Unwrap(out))
         THEN /\ t_sign' = [t_sign EXCEPT ![t] = Unwrap(out)]
              /\ generated' = generated \cup
                    { [sign |-> Unwrap(out), yq_bid |-> t_yq_bid[t],
                       configs_md5 |-> Unwrap(t_assets[t]).configs_md5] }
              /\ pc' = [pc EXCEPT ![t] = "r_wait3"]
              /\ UNCHANGED << t_assets, t_yq_bid, t_stored, t_invalidated, ret, cached_assets >>
         ELSE /\ Return(t, [op |-> "refresh", ok |-> FALSE, cred |-> None])
              /\ t_invalidated' = [t_invalidated EXCEPT ![t] = FALSE]
              /\ cached_assets' = None
              /\ UNCHANGED generated
    /\ UNCHANGED << credentials, cred_invalidated, yq_bid, rw_writer, rw_readers,
                    now, calls, fetchCount >>
    /\ UNCHANGED << ret_config, clientVars, pureVars, extractVars >>

(* lines 171-195: the sandbox run on a blocking thread, without the lock *)
GenerateSign(t, out) ==
    /\ pc[t] = "r_v8"
    /\ sandboxCount' = sandboxCount + 1
    /\ IF IsSome(out) /\ ~SignRejected(Unwrap(out))
         THEN /\ t_sign' = [t_sign EXCEPT ![t] = Unwrap(out)]
              /\ generated' = generated \cup
                    { [sign |-> Unwrap(out), yq_bid |-> t_yq_bid[t],
                       configs_md5 |-> Unwrap(t_assets[t]).configs_md5] }
              /\ pc' = [pc EXCEPT ![t] = "r_wait3"]
              /\ UNCHANGED << t_assets, t_yq_bid, t_stored, t_invalidated, ret >>
         ELSE /\ Return(t, [op |-> "refresh", ok |-> FALSE, cred |-> None])
              /\ t_invalidated' = [t_invalidated EXCEPT ![t] = FALSE]
              /\ UNCHANGED generated
    /\ UNCHANGED << credentials, cred_invalidated, cached_assets, yq_bid, rw_writer, rw_readers,
                    now, calls, fetchCount >>
    /\ UNCHANGED << ret_config, clientVars, pureVars, extractVars >>

(* lines 172-195: the script never returns (nothing bounds the run), so the
   blocking task never ends and the call stays at its `.await` *)
SandboxHangs(t) ==
    /\ pc[t] = "r_v8"
    /\ sandboxCount' = sandboxCount + 1
    /\ pc' = [pc EXCEPT ![t] = "r_hung"]
    /\ UNCHANGED << credentials, cred_invalidated, cached_assets, yq_bid, rw_writer, rw_readers,
                    now, t_assets, t_yq_bid, t_stored, t_invalidated, t_sign, ret, calls, fetchCount,
                    generated >>
    /\ UNCHANGED << ret_config, clientVars, pureVars, extractVars >>

(* lines 198-203: the ApiCredentials built from the call's locals *)
NewCredentials(sign, bid, assets) ==
    [sign |-> sign, last_event_id |-> "", yq_bid |-> bid,
     configs_md5 |-> assets.configs_md5]

(* line 206: the write lock is taken a last time *)
RefreshLock3(t) ==
    /\ pc[t] = "r_wait3"
    /\ WriteFree
    /\ rw_writer' = Some(t)
    /\ pc' = [pc EXCEPT ![t] = "r_store_creds"]
    /\ UNCHANGED << credentials, cred_invalidated, cached_assets, yq_bid, rw_readers, now,
                    t_assets, t_yq_bid, t_stored, t_invalidated, t_sign, ret, calls, fetchCount,
                    sandboxCount, generated >>
    /\ UNCHANGED << ret_config, clientVars, pureVars, extractVars >>

(* lines 207-211: store and return the credential *)
RefreshStoreCredentials(t) ==
    /\ pc[t] = "r_store_creds"
    /\ rw_writer = Some(t)
    /\ LET c == NewCredentials(t_sign[t], t_yq_bid[t], Unwrap(t_assets[t]))
       IN /\ credentials' = Some(c)
          /\ cred_invalidated' = t_invalidated[t]
          /\ t_invalidated' = [t_invalidated EXCEPT ![t] = FALSE]
          /\ Return(t, [op |-> "refresh", ok |-> TRUE, cred |-> Some(c)])
    /\ Release(t)
    /\ UNCHANGED << cached_assets, yq_bid, now, calls, fetchCount,
                    sandboxCount, generated >>
    /\ UNCHANGED << ret_config, clientVars, pureVars, extractVars >>

(* ---- invalidate ------------------------------------------------------ *)

(* task u is inside a refresh_credentials call (lines 116-212) *)
InRefresh(u) ==
    pc[u] \in { "r_check", "r_fetch", "r_wait2", "r_store_assets", "r_v8",
                "r_hung", "r_wait3", "r_store_creds" }

(* line 223 *)
InvalidateLock(t) ==
    /\ pc[t] = "idle"
    /\ calls < MaxCalls
    /\ WriteFree
    /\ rw_writer' = Some(t)
    /\ pc' = [pc EXCEPT ![t] = "i_clear"]
    /\ calls' = calls + 1
    /\ UNCHANGED << credentials, cred_invalidated, cached_assets, yq_bid, rw_readers, now,
                    t_assets, t_yq_bid, t_stored, t_invalidated, t_sign, ret, fetchCount, sandboxCount,
                    generated >>
    /\ UNCHANGED << ret_config, clientVars, pureVars, extractVars >>

(* invalidate dropping the credential but keeping the cached assets *)
InvalidateClearCredentials(t) ==
    /\ pc[t] = "i_clear"
    /\ rw_writer = Some(t)
    /\ credentials' = None
    /\ cred_invalidated' = FALSE
    /\ t_invalidated' = [u \in Tasks |-> t_invalidated[u] \/ InRefresh(u)]
    /\ Release(t)
    /\ Return(t, [op |-> "invalidate", ok |-> TRUE, cred |-> None])
    /\ UNCHANGED << cached_assets, yq_bid, now, calls, fetchCount,
                    sandboxCount, generated >>
    /\ UNCHANGED << ret_config, clientVars, pureVars, extractVars >>

(* lines 225-227 *)
InvalidateClear(t) ==
    /\ pc[t] = "i_clear"
    /\ rw_writer = Some(t)
    /\ credentials' = None
    /\ cached_assets' = None
    /\ cred_invalidated' = FALSE
    /\ t_invalidated' = [u \in Tasks |-> t_invalidated[u] \/ InRefresh(u)]
    /\ Release(t)
    /\ Return(t, [op |-> "invalidate", ok |-> TRUE, cred |-> None])
    /\ UNCHANGED << yq_bid, now, calls, fetchCount, sandboxCount, generated >>
    /\ UNCHANGED << ret_config, clientVars, pureVars, extractVars >>

(* ---- get_valid_credentials ------------------------------------------- *)

(* line 89 *)
GetValidLock(t) ==
    /\ pc[t] = "idle"
    /\ calls < MaxCalls
    /\ ReadFree
    /\ rw_readers' = rw_readers \cup {t}
    /\ pc' = [pc EXCEPT ![t] = "g_read"]
    /\ calls' = calls + 1
    /\ UNCHANGED << credentials, cred_invalidated, cached_assets, yq_bid, rw_writer, now,
                    t_assets, t_yq_bid, t_stored, t_invalidated, t_sign, ret, fetchCount, sandboxCount,
                    generated >>
    /\ UNCHANGED << ret_config, clientVars, pureVars, extractVars >>

(* lines 92-103 *)
GetValidRead(t) ==
    /\ pc[t] = "g_read"
    /\ t \in rw_readers
    /\ Return(t, [op |-> "get_valid", ok |-> TRUE, cred |-> get_valid_credentials])
    /\ UNCHANGED t_invalidated
    /\ Release(t)
    /\ UNCHANGED << credentials, cred_invalidated, cached_assets, yq_bid, now, calls,
                    fetchCount, sandboxCount, generated >>
    /\ UNCHANGED << ret_config, clientVars, pureVars, extractVars >>

(* ---- generate_last_event_id_for_body --------------------------------- *)

(* last_event_id.rs lines 23, 28: the defaults of LastEventIdConfig *)
DEFAULT_CANVAS_HASH == 1022200205
DEFAULT_TZ_OFFSET == 300

(* the default configuration whatever is cached, with the cache's device
   id *)
LastEventIdConfigDefault(assets, bid) ==
    [yq_bid |-> bid, configs_md5 |-> "1.0.156",
     tz_offset |-> DEFAULT_TZ_OFFSET, canvas_hash |-> DEFAULT_CANVAS_HASH]

(* lines 236-246: the configuration built from the cache *)
LastEventIdConfigOf(assets, bid) ==
    [yq_bid |-> bid,
     configs_md5 |-> IF IsSome(assets) THEN Unwrap(assets).configs_md5
                     ELSE "1.0.156",
     tz_offset |-> DEFAULT_TZ_OFFSET,
     canvas_hash |-> DEFAULT_CANVAS_HASH]

(* line 234 *)
LastEventIdLock(t) ==
    /\ pc[t] = "idle"
    /\ calls < MaxCalls
    /\ ReadFree
    /\ rw_readers' = rw_readers \cup {t}
    /\ pc' = [pc EXCEPT ![t] = "l_read"]
    /\ calls' = calls + 1
    /\ UNCHANGED << credentials, cred_invalidated, cached_assets, yq_bid, rw_writer, now,
                    t_assets, t_yq_bid, t_stored, t_invalidated, t_sign, ret, ret_config, fetchCount,
                    sandboxCount, generated >>
    /\ UNCHANGED << clientVars, pureVars, extractVars >>

(* lines 236-252: the header is computed from the request body and this
   configuration *)
LastEventIdRead(t) ==
    /\ pc[t] = "l_read"
    /\ t \in rw_readers
    /\ ret_config' = [ret_config EXCEPT ![t] =
                          Some(LastEventIdConfigOf(cached_assets, yq_bid))]
    /\ Return(t, [op |-> "last_event_id", ok |-> TRUE, cred |-> None])
    /\ UNCHANGED t_invalidated
    /\ Release(t)
    /\ UNCHANGED << credentials, cred_invalidated, cached_assets, yq_bid, now, calls,
                    fetchCount, sandboxCount, generated >>
    /\ UNCHANGED << clientVars, pureVars, extractVars >>

(* ---- time ------------------------------------------------------------ *)

Tick ==
    /\ now < MaxTicks * TickStep
    /\ now' = now + TickStep
    /\ UNCHANGED << credentials, cred_invalidated, cached_assets, yq_bid, rw_writer, rw_readers,
                    pc, t_assets, t_yq_bid, t_stored, t_invalidated, t_sign, ret, calls, fetchCount,
                    sandboxCount, generated >>
    /\ UNCHANGED << ret_config, clientVars, pureVars, extractVars >>

CacheNext ==
    \/ \E t \in Tasks : RefreshLock(t)
    \/ \E t \in Tasks : RefreshCheck(t)
    \/ \E t \in Tasks : \E out \in FetchOutcomes : FetchJsAssets(t, out)
    \/ \E t \in Tasks : RefreshLock2(t)
    \/ \E t \in Tasks : RefreshStoreAssets(t)
    \/ \E t \in Tasks :
         \E out \in SandboxOutcomes(sandboxCount + 1,
                                    IF IsSome(t_assets[t])
                                      THEN Unwrap(t_assets[t]).sign_module_js
                                      ELSE "") : GenerateSign(t, out)
    \/ \E t \in Tasks : SandboxHangs(t)
    \/ \E t \in Tasks : RefreshLock3(t)
    \/ \E t \in Tasks : RefreshStoreCredentials(t)
    \/ \E t \in Tasks : InvalidateLock(t)
    \/ \E t \in Tasks : InvalidateClear(t)
    \/ \E t \in Tasks : GetValidLock(t)
    \/ \E t \in Tasks : GetValidRead(t)
    \/ \E t \in Tasks : LastEventIdLock(t)
    \/ \E t \in Tasks : LastEventIdRead(t)
    \/ Tick

SpecCache == Init /\ [][CacheNext]_vars


(* N tasks each call refresh_credentials once on the fresh cache, and every
   fetch and every sandbox run succeeds *)
SingleFlightNext ==
    \/ \E t \in Tasks : ret[t] = NoRet /\ RefreshLock(t)
    \/ \E t \in Tasks : RefreshCheck(t)
    \/ \E t \in Tasks : \E out \in FetchOutcomes \ {None} : FetchJsAssets(t, out)
    \/ \E t \in Tasks : RefreshLock2(t)
    \/ \E t \in Tasks : RefreshStoreAssets(t)
    \/ \E t \in Tasks :
         pc[t] = "r_v8" /\ GenerateSign(t, Some(<< sandboxCount + 1,
                                   Unwrap(t_assets[t]).sign_module_js >>))
    \/ \E t \in Tasks : RefreshLock3(t)
    \/ \E t \in Tasks : RefreshStoreCredentials(t)

SpecSingleFlight == Init /\ [][SingleFlightNext]_vars

(* ---------------------------------------------------------------------- *)
(* Properties of the CredentialCache                                       *)
(* ---------------------------------------------------------------------- *)

(* a refresh_credentials call past its double-check that has not yet stored
   its credential *)
Refreshing == { "r_fetch", "r_wait2", "r_store_assets", "r_v8", "r_hung",
                "r_wait3", "r_store_creds" }

(* C1: concurrent refresh_credentials calls on an empty cache, all fetches
   and sandbox runs succeeding, make one asset fetch and one sandbox run
   between them (single-flight). *)
C1_SingleFlight ==
    /\ fetchCount <= 1
    /\ sandboxCount <= 1
    /\ ((\A t \in Tasks : ret[t] # NoRet) => fetchCount = 1 /\ sandboxCount = 1)

(* C7: at most one refresh_credentials call is between its double-check
   and the store of its credential. *)
C7_OneRefresher ==
    \A t, u \in Tasks :
        (pc[t] \in Refreshing /\ pc[u] \in Refreshing) => t = u

(* C8: an invalidate never takes effect while a refresh_credentials call is
   between its double-check and the store of its credential. *)
C8_InvalidateExcluded ==
    [][ \A t \in Tasks :
          (pc[t] = "i_clear" /\ pc'[t] = "idle")
              => \A u \in Tasks : pc[u] \notin Refreshing ]_vars

(* the (sign, yq_bid, configs_md5) of a credential *)
UnitOf(c) == [sign |-> c.sign, yq_bid |-> c.yq_bid, configs_md5 |-> c.configs_md5]

(* C9: every credential a call returns has a non-empty sign and is, field
   for field, the unit one sandbox run produced. *)
C9_CredentialIsUnit ==
    \A t \in Tasks :
        IsSome(ret[t].cred) =>
            /\ Unwrap(ret[t].cred).sign # <<>>
            /\ Unwrap(ret[t].cred).yq_bid = yq_bid
            /\ UnitOf(Unwrap(ret[t].cred)) \in generated

(* C9 witness: two runs produced different units, one call got its credential
   from refresh_credentials and another from get_valid_credentials *)
C9_Witness ==
    /\ Cardinality(generated) >= 2
    /\ \E t, u \in Tasks :
          /\ ret[t].op = "get_valid" /\ IsSome(ret[t].cred)
          /\ ret[u].op = "refresh" /\ IsSome(ret[u].cred)

(* C10: when refresh_credentials returns Ok(c), get_valid_credentials on the
   cache it leaves behind gives c (asked here only of calls that return
   while the assets they used are younger than the TTL). *)
C10_RefreshThenGetValid ==
    [][ \A t \in Tasks :
          (/\ pc[t] \in {"r_check", "r_store_creds"}
           /\ pc'[t] = "idle"
           /\ ret'[t].ok
           /\ pc[t] = "r_store_creds" => is_fresh(Unwrap(t_assets[t])))
              => get_valid_credentials' = ret'[t].cred ]_vars

(* C11: get_valid_credentials returns the stored credential exactly when a
   credential is stored and the cached assets are stored and less than 3600
   seconds old, and None otherwise. *)
C11_GetValidExactly ==
    [][ \A t \in Tasks :
          (pc[t] = "g_read" /\ pc'[t] = "idle")
              => /\ ret'[t].op = "get_valid"
                 /\ ret'[t].cred =
                      IF /\ credentials # None
                         /\ cached_assets # None
                         /\ now - Unwrap(cached_assets).fetched_at < 3600
                        THEN credentials ELSE None ]_vars

(* C11 witness: one get_valid_credentials got the credential, a later one
   got None from a cache that holds the credential and one-hour-old assets *)
C11_Witness ==
    \E t, u \in Tasks :
        /\ ret[t].op = "get_valid" /\ ret[t].cred = None
        /\ ret[u].op = "get_valid" /\ IsSome(ret[u].cred)
        /\ credentials = ret[u].cred
        /\ IsSome(cached_assets)
        /\ now - Unwrap(cached_assets).fetched_at = 3600

(* C12: invalidate leaves the cache without credential and without cached
   assets, whatever it held, and get_valid_credentials on the cache it
   leaves gives None. *)
C12_InvalidateClearsBoth ==
    [][ \A t \in Tasks :
          (pc[t] = "i_clear" /\ pc'[t] = "idle")
              => /\ credentials' = None
                 /\ cached_assets' = None
                 /\ ret'[t].ok
                 /\ get_valid_credentials' = None ]_vars

(* C12 witness: an invalidate returned on a cache that a completed refresh
   had filled, and the cache is empty *)
C12_Witness ==
    \E t, u \in Tasks :
        /\ ret[t].op = "invalidate"
        /\ ret[u].op = "refresh" /\ IsSome(ret[u].cred)
        /\ fetchCount = 1 /\ sandboxCount = 1
        /\ credentials = None
        /\ cached_assets = None
        /\ \A v \in Tasks : pc[v] = "idle"

(* C13: a refresh_credentials call whose double-check finds a credential and
   fresh cached assets returns that credential at once: no fetch, no
   sandbox run. *)
C13_DoubleCheckReturns ==
    [][ \A t \in Tasks :
          (/\ pc[t] = "r_check" /\ pc'[t] # "r_check"
           /\ credentials # None
           /\ cached_assets # None
           /\ now - Unwrap(cached_assets).fetched_at < 3600)
              => /\ pc'[t] = "idle"
                 /\ ret'[t] = [op |-> "refresh", ok |-> TRUE, cred |-> credentials]
                 /\ fetchCount' = fetchCount
                 /\ sandboxCount' = sandboxCount
                 /\ credentials' = credentials
                 /\ cached_assets' = cached_assets ]_vars

(* C13 witness: two tasks called refresh_credentials, both got the same
   credential, and one fetch and one sandbox run were made *)
C13_Witness ==
    \E t, u \in Tasks :
        /\ t # u
        /\ ret[t].op = "refresh" /\ ret[u].op = "refresh"
        /\ IsSome(ret[t].cred) /\ ret[t].cred = ret[u].cred
        /\ calls = 2
        /\ fetchCount = 1 /\ sandboxCount = 1


(* ---------------------------------------------------------------------- *)
(* Track17Client: helpers of track_multiple                                *)
(* ---------------------------------------------------------------------- *)

Contains(seq, x) == \E i \in DOMAIN seq : seq[i] = x

(* has_events of shipment_needs_retry (client.rs lines 407-413) *)
HasEvents(details) ==
    \/ IsSome(details.latest_event)
    \/ /\ IsSome(details.tracking)
       /\ IsSome(Unwrap(details.tracking).providers)
       /\ \E i \in DOMAIN Unwrap(Unwrap(details.tracking).providers) :
             Unwrap(Unwrap(details.tracking).providers)[i].events # <<>>

(* every shipment taken as complete *)
shipment_needs_retryNever(shipment) == FALSE

(* lines 397-419 *)
shipment_needs_retry(shipment) ==
    IF shipment.code = PENDING_SHIPMENT_CODE THEN TRUE
    ELSE IF shipment.code = 200
      THEN IF shipment.shipment = None THEN TRUE
           ELSE ~HasEvents(Unwrap(shipment.shipment))
      ELSE FALSE

(* the closure of get_suggested_carrier, for one `extra` entry *)
EntrySuggestion(e) ==
    IF Contains(e.multi, FEDEX) THEN Some(FEDEX)
    ELSE IF Contains(e.multi, UPS) THEN Some(UPS)
    ELSE IF Contains(e.multi, USPS) THEN Some(USPS)
    ELSE IF e.multi = <<>> THEN None ELSE Some(Head(e.multi))

(* Iterator::find_map over the `extra` entries *)
RECURSIVE FindSuggestion(_)
FindSuggestion(extra) ==
    IF extra = <<>> THEN None
    ELSE IF IsSome(EntrySuggestion(Head(extra))) THEN EntrySuggestion(Head(extra))
    ELSE FindSuggestion(Tail(extra))

(* no suggestion is ever found *)
get_suggested_carrierNone(shipment) == None

get_suggested_carrier(shipment) ==
    IF shipment.extra = None THEN None
    ELSE FindSuggestion(Unwrap(shipment.extra))

(* lines 451-458 *)
InitialItems(nums, cc) ==
    [i \in 1..Len(nums) |-> [num |-> nums[i], fc |-> cc, sc |-> 0]]

(* the filter left out: every item is requested again *)
PendingItemsAll(its, fin) == its

(* lines 466-470 *)
PendingItems(its, fin) == SelectSeq(its, LAMBDA it : fin[it.num] = None)

(* the suggestion applied to every item of the batch *)
UpdateCarrierEvery(its, num, fc) ==
    [i \in DOMAIN its |-> [its[i] EXCEPT !.fc = fc]]

(* lines 542-544: the first item with that number gets the carrier *)
UpdateCarrier(its, num, fc) ==
    IF \E i \in DOMAIN its : its[i].num = num
      THEN LET i == CHOOSE j \in DOMAIN its :
                      /\ its[j].num = num
                      /\ \A k \in DOMAIN its : its[k].num = num => j <= k
           IN [its EXCEPT ![i].fc = fc]
      ELSE its

(* lines 530-552: one response's shipments, in order *)
RECURSIVE ProcessShipments(_, _, _)
ProcessShipments(ships, its, fin) ==
    IF ships = <<>> THEN [items |-> its, final |-> fin]
    ELSE LET sh == Head(ships)
             suggested == get_suggested_carrier(sh)
         IN IF sh.code = NOT_FOUND_SHIPMENT_CODE /\ IsSome(suggested)
              THEN ProcessShipments(Tail(ships),
                                    UpdateCarrier(its, sh.number, Unwrap(suggested)),
                                    fin)
              ELSE IF ~shipment_needs_retry(sh)
                THEN ProcessShipments(Tail(ships), its,
                                      [fin EXCEPT ![sh.number] = Some(sh)])
                ELSE ProcessShipments(Tail(ships), its, fin)

(* the placeholder built with the carrier the caller passed instead of the
   item's *)
PlaceholderAuto(item) ==
    [code |-> PENDING_SHIPMENT_CODE, number |-> item.num, carrier |-> AUTO,
     extra |-> None, shipment |-> None]

(* lines 577-595: the placeholder shipment *)
Placeholder(item) ==
    [code |-> PENDING_SHIPMENT_CODE, number |-> item.num, carrier |-> item.fc,
     extra |-> None, shipment |-> None]

(* lines 572-598 *)
RECURSIVE FillPlaceholders(_, _)
FillPlaceholders(its, fin) ==
    IF its = <<>> THEN fin
    ELSE IF fin[Head(its).num] = None
      THEN FillPlaceholders(Tail(its),
                            [fin EXCEPT ![Head(its).num] = Some(Placeholder(Head(its)))])
      ELSE FillPlaceholders(Tail(its), fin)

(* the final assembly walking the numbers in response-map order instead of
   the caller's order *)
RECURSIVE BuildShipmentsReversed(_, _)
BuildShipmentsReversed(nums, fin) ==
    IF nums = <<>> THEN <<>>
    ELSE IF fin[nums[Len(nums)]] = None
      THEN BuildShipmentsReversed(SubSeq(nums, 1, Len(nums) - 1), fin)
      ELSE << Unwrap(fin[nums[Len(nums)]]) >>
           \o BuildShipmentsReversed(SubSeq(nums, 1, Len(nums) - 1),
                                     [fin EXCEPT ![nums[Len(nums)]] = None])

(* lines 612-615: filter_map(|num| final_shipments.remove(num)) *)
RECURSIVE BuildShipments(_, _)
BuildShipments(nums, fin) ==
    IF nums = <<>> THEN <<>>
    ELSE IF fin[Head(nums)] = None THEN BuildShipments(Tail(nums), fin)
    ELSE << Unwrap(fin[Head(nums)]) >>
         \o BuildShipments(Tail(nums), [fin EXCEPT ![Head(nums)] = None])

OkResult(ships, guid) ==
    [kind |-> "ok", err |-> "", shipments |-> ships, guid |-> guid]

(* the error dropped and an empty response returned instead *)
ErrResultSwallowed(e) ==
    [kind |-> "ok", err |-> "", shipments |-> <<>>, guid |-> ""]

ErrResult(e) == [kind |-> "err", err |-> e, shipments |-> <<>>, guid |-> ""]

PanicResult == [kind |-> "panic", err |-> "", shipments |-> <<>>, guid |-> ""]

LogResponse(code) == [ev |-> "response", code |-> code]
LogInvalidation == [ev |-> "invalidate", code |-> 0]
LogMany == << [ev |-> "many", code |-> 0] >>
AppendLog(l, e) == IF l = LogMany \/ Len(l) >= MaxLog THEN LogMany ELSE Append(l, e)


(* ---------------------------------------------------------------------- *)
(* What the outside can give                                               *)
(* ---------------------------------------------------------------------- *)

(* the tracking_numbers argument: every list of at most MaxInput numbers,
   up to the renaming of numbers (a non-empty list starts with "A") *)
Inputs == { nums \in UNION { [1..n -> Numbers] : n \in 0..MaxInput } :
                nums = <<>> \/ nums[1] = "A" }

(* the credentials a browser session can yield *)
ExtractedCredentials ==
    { [sign |-> "sign1", last_event_id |-> "lei1", yq_bid |-> "bid1"] }
ExtractOutcomes == {None} \cup { Some(c) : c \in ExtractedCredentials }

NoDetail == None
EmptyDetail == Some([tracking |-> None, latest_event |-> None])
EventDetail == Some([tracking |-> None, latest_event |-> Some("event")])

(* the shipments a response can hold for number n *)
ShipmentsFor(n) ==
    { [code |-> 100, number |-> n, carrier |-> AUTO, extra |-> None,
       shipment |-> NoDetail],
      [code |-> 200, number |-> n, carrier |-> UPS, extra |-> None,
       shipment |-> EmptyDetail],
      [code |-> 200, number |-> n, carrier |-> UPS, extra |-> None,
       shipment |-> EventDetail],
      [code |-> 400, number |-> n, carrier |-> AUTO,
       extra |-> Some(<< [multi |-> << DHL, FEDEX >>] >>), shipment |-> NoDetail] }

(* code 400 without any carrier suggestion, for each number *)
NotFoundShipments ==
    { [code |-> NOT_FOUND_SHIPMENT_CODE, number |-> n, carrier |-> AUTO,
       extra |-> None, shipment |-> NoDetail] : n \in Numbers }

ResponseShipments == UNION { ShipmentsFor(n) : n \in Numbers }

ShipmentLists(k) == UNION { [1..n -> ResponseShipments] : n \in 0..k }

Guids == {"", "g1", "g2"}

(* a parsed TrackingResponse, or why make_request failed *)
Parsed(code, guid, ships) ==
    [fail |-> "none", meta |-> code, guid |-> guid, shipments |-> ships]
Failed(why) == [fail |-> why, meta |-> 0, guid |-> "", shipments |-> <<>>]

RequestOutcomes ==
    { Failed(w) : w \in {"send", "status", "parse"} }
    \cup { Parsed(200, g, sh) : g \in Guids, sh \in ShipmentLists(MaxShipments) }
    \cup { Parsed(c, g, sh) : c \in {INVALID_SIGN_CODE, INVALID_SESSION_CODE},
                              g \in {"", "g1"}, sh \in ShipmentLists(1) }
    \cup { Parsed(-5, "g1", sh) : sh \in ShipmentLists(1) }
    \cup { Parsed(200, "", << sh >>) : sh \in NotFoundShipments }

(* ---------------------------------------------------------------------- *)
(* Track17Client: operations                                               *)
(* ---------------------------------------------------------------------- *)

(* lines 464-476: the top of the loop up to the request being sent, or the
   break and the final assembly of lines 611-625 *)
LoopTop(nums, creds, its, fin, guid) ==
    LET pending_items == PendingItems(its, fin)
    IN /\ response_meta' = 0
       /\ response_guid' = ""
       /\ IF pending_items = <<>>
            THEN /\ cpc' = "returned"
                 /\ result' = OkResult(BuildShipments(nums, fin), guid)
                 /\ UNCHANGED request
            ELSE IF creds = None
              THEN /\ cpc' = "returned"       \* line 336: unwrap of None
                   /\ result' = PanicResult
                   /\ UNCHANGED request
              ELSE /\ cpc' = "await"
                   /\ request' = Some([data |-> pending_items, guid |-> guid,
                                       sign |-> Unwrap(creds).sign,
                                       \* line 371: the header, on every request
                                       last_event_id |->
                                           Some(Unwrap(creds).last_event_id)])
                   /\ result' = NoResult

(* the call goes to its first request without looking at the credentials *)
TrackMultipleNoExtract(nums, cc) ==
    /\ cpc = "idle"
    /\ tracking_numbers' = nums
    /\ carrier_code' = cc
    /\ items' = InitialItems(nums, cc)
    /\ LoopTop(nums, client_credentials, InitialItems(nums, cc), EmptyMap, "")
    /\ UNCHANGED << client_credentials, credential_mutex, log, pending_retries,
                    session_guid, final_shipments >>
    /\ UNCHANGED << cacheVars, pureVars, extractVars >>

(* lines 437-476: a call starts.  Without cached credentials it enters
   extract_credentials (mutex, double-check, browser launch); with them it
   sets up its state and runs to its first request. *)
TrackMultiple(nums, cc) ==
    /\ cpc = "idle"
    /\ tracking_numbers' = nums
    /\ carrier_code' = cc
    /\ UNCHANGED << client_credentials, log, pending_retries, session_guid,
                    final_shipments >>
    /\ IF client_credentials = None
         THEN /\ items' = <<>>
              /\ UNCHANGED << request, response_meta, response_guid >>
              /\ IF nums = <<>>
                   THEN /\ cpc' = "returned"    \* line 444: index 0 of an empty slice
                        /\ result' = PanicResult
                        /\ UNCHANGED credential_mutex
                   ELSE /\ cpc' = "extract_init"
                        /\ credential_mutex' = TRUE
                        /\ result' = NoResult
         ELSE /\ items' = InitialItems(nums, cc)
              /\ UNCHANGED credential_mutex
              /\ LoopTop(nums, client_credentials, InitialItems(nums, cc), EmptyMap, "")
    /\ UNCHANGED << cacheVars, pureVars, extractVars >>

(* lines 230-234 and 444 or 520: extract_credentials returns `out`.  On Err
   the `?` of line 444 or 520 returns it; on Ok the credentials are stored
   and the call goes on to its (next) request. *)
ExtractResult(out) ==
    /\ cpc \in {"extract_init", "extract_expired"}
    /\ credential_mutex' = FALSE
    /\ UNCHANGED << tracking_numbers, carrier_code, pending_retries,
                    session_guid, final_shipments, log >>
    /\ IF out = None
         THEN /\ cpc' = "returned"
              /\ result' = ErrResult("credential")
              /\ UNCHANGED << client_credentials, items, request,
                              response_meta, response_guid >>
         ELSE /\ client_credentials' = out
              /\ IF cpc = "extract_init"
                   THEN /\ items' = InitialItems(tracking_numbers, carrier_code)
                        /\ LoopTop(tracking_numbers, out,
                                   InitialItems(tracking_numbers, carrier_code),
                                   EmptyMap, "")
                   ELSE /\ UNCHANGED items
                        /\ LoopTop(tracking_numbers, out, items, final_shipments,
                                   session_guid)

(* lines 176-235: a whole run of extract_credentials, seen from the call
   that waits for it *)
ExtractDone(out) ==
    /\ ExtractResult(out)
    /\ UNCHANGED << cacheVars, pureVars, extractVars >>

(* the session code left out of the test of line 513 *)
IsExpirySignOnly(code) == code = INVALID_SIGN_CODE

(* line 513 *)
IsExpiry(code) == code = INVALID_SIGN_CODE \/ code = INVALID_SESSION_CODE

(* the response's guid stored whatever it is *)
StoredGuidLatest(current, guid) == guid

(* lines 525-527 *)
StoredGuid(current, guid) ==
    IF guid # "" THEN guid ELSE current

(* lines 476-608: make_request ends and its outcome is handled *)
Receive(out) ==
    /\ cpc = "await"
    /\ UNCHANGED << tracking_numbers, carrier_code, request >>
    /\ IF out.fail # "none"
         THEN \* lines 376, 379, 389-393 and the `?` of line 476
              /\ cpc' = "returned"
              /\ result' = ErrResult(out.fail)
              /\ UNCHANGED << client_credentials, credential_mutex,
                              pending_retries, session_guid, items,
                              final_shipments, response_meta, response_guid,
                              log >>
         ELSE IF IsExpiry(out.meta)
           THEN \* lines 513-522, into extract_credentials
                /\ client_credentials' = None
                /\ credential_mutex' = TRUE
                /\ cpc' = "extract_expired"
                /\ response_meta' = out.meta
                /\ response_guid' = out.guid
                /\ log' = AppendLog(AppendLog(log, LogResponse(out.meta)),
                                    LogInvalidation)
                /\ UNCHANGED << pending_retries, session_guid, items,
                                final_shipments, result >>
           ELSE LET guid == StoredGuid(session_guid, out.guid)
                    done == ProcessShipments(out.shipments, items, final_shipments)
                    still_pending == Len(PendingItems(done.items, done.final))
                IN /\ session_guid' = guid
                   /\ response_meta' = out.meta
                   /\ response_guid' = out.guid
                   /\ items' = done.items
                   /\ log' = AppendLog(log, LogResponse(out.meta))
                   /\ UNCHANGED << client_credentials, credential_mutex >>
                   /\ IF still_pending > 0
                        THEN IF pending_retries >= MAX_PENDING_RETRIES
                          THEN /\ final_shipments' =
                                      FillPlaceholders(done.items, done.final)
                               /\ cpc' = "returned"
                               /\ result' = OkResult(
                                      BuildShipments(tracking_numbers,
                                          FillPlaceholders(done.items, done.final)),
                                      guid)
                               /\ UNCHANGED pending_retries
                          ELSE /\ final_shipments' = done.final
                               /\ pending_retries' = pending_retries + 1
                               /\ cpc' = "sleep"
                               /\ UNCHANGED result
                        ELSE /\ final_shipments' = done.final
                             /\ cpc' = "returned"
                             /\ result' = OkResult(
                                    BuildShipments(tracking_numbers, done.final), guid)
                             /\ UNCHANGED pending_retries
    /\ UNCHANGED << cacheVars, pureVars, extractVars >>

(* line 607 and the next turn of the loop: the delay ends and the pending
   items are requested again *)
WakeAndSend ==
    /\ cpc = "sleep"
    /\ LoopTop(tracking_numbers, client_credentials, items, final_shipments,
               session_guid)
    /\ UNCHANGED << client_credentials, credential_mutex, tracking_numbers,
                    carrier_code, pending_retries, session_guid, items,
                    final_shipments, log >>
    /\ UNCHANGED << cacheVars, pureVars, extractVars >>

(* the caller takes the result; the call's locals are gone *)
CallEnds ==
    /\ cpc = "returned"
    /\ cpc' = "idle"
    /\ tracking_numbers' = <<>>
    /\ carrier_code' = AUTO
    /\ pending_retries' = 0
    /\ session_guid' = ""
    /\ items' = <<>>
    /\ final_shipments' = EmptyMap
    /\ request' = None
    /\ result' = NoResult
    /\ response_meta' = 0
    /\ response_guid' = ""
    /\ log' = <<>>
    /\ UNCHANGED << client_credentials, credential_mutex >>
    /\ UNCHANGED << cacheVars, pureVars, extractVars >>

(* lines 321-323 *)
clear_credentials ==
    /\ cpc = "idle"
    /\ client_credentials # None
    /\ client_credentials' = None
    /\ UNCHANGED << credential_mutex, cpc, tracking_numbers, carrier_code,
                    pending_retries, session_guid, items, final_shipments,
                    request, result, response_meta, response_guid, log >>
    /\ UNCHANGED << cacheVars, pureVars, extractVars >>

ClientNext ==
    \/ \E nums \in Inputs : TrackMultiple(nums, AUTO)
    \/ \E out \in ExtractOutcomes : ExtractDone(out)
    \/ \E out \in RequestOutcomes : Receive(out)
    \/ WakeAndSend
    \/ CallEnds
    \/ clear_credentials

SpecClient == Init /\ [][ClientNext]_vars


(* every suspension point of a call is left again: the browser session ends
   (EXTRACTION_TIMEOUT), the request is answered or fails, the delay ends *)
FairSpecClient ==
    /\ SpecClient
    /\ WF_vars(\E out \in ExtractOutcomes : ExtractDone(out))
    /\ WF_vars(\E out \in RequestOutcomes : Receive(out))
    /\ WF_vars(WakeAndSend)

(* ---------------------------------------------------------------------- *)
(* get_suggested_carrier on its own                                        *)
(* ---------------------------------------------------------------------- *)

(* the carriers an `extra` entry can suggest *)
SuggestedCarriers == { FEDEX, UPS, USPS, DHL }

(* ShipmentExtra::multi *)
MultiLists == UNION { [1..n -> SuggestedCarriers] : n \in 0..MaxMulti }

(* Shipment::extra, when present *)
ExtraLists ==
    UNION { [1..n -> { [multi |-> m] : m \in MultiLists }] : n \in 0..MaxExtra }

(* the code-400 shipments get_suggested_carrier is called on *)
SuggestionShipments ==
    { [code |-> NOT_FOUND_SHIPMENT_CODE, number |-> "A", carrier |-> AUTO,
       extra |-> e, shipment |-> NoDetail] :
         e \in {None} \cup { Some(x) : x \in ExtraLists } }

InitCarrier ==
    /\ CacheInit
    /\ ClientInit
    /\ ExtractIdle
    /\ config_proxy = "none"
    /\ arg_shipment \in { Some(sh) : sh \in SuggestionShipments }
    /\ ret_carrier = None
    /\ HashIdle
    /\ LastEventIdIdle

(* client.rs lines 422-435, called on arg_shipment *)
GetSuggestedCarrier ==
    /\ arg_shipment # None
    /\ ret_carrier = None
    /\ ret_carrier' = Some(get_suggested_carrier(Unwrap(arg_shipment)))
    /\ UNCHANGED << arg_shipment, hashVars, lastEventIdVars, cacheVars,
                    clientVars, extractVars >>

SpecCarrier == InitCarrier /\ [][GetSuggestedCarrier]_vars

(* all carriers of all entries, in order *)
RECURSIVE AllSuggested(_)
AllSuggested(extra) ==
    IF extra = <<>> THEN <<>> ELSE Head(extra).multi \o AllSuggested(Tail(extra))

(* C16: the carrier chosen is FedEx if any entry suggests FedEx, else UPS if
   any suggests UPS, else USPS if any suggests USPS, else the first carrier
   suggested (none if nothing is suggested), however the suggestions are
   spread over the entries of `extra`. *)
C16_PriorityOverAllEntries ==
    ret_carrier # None =>
        LET sh == Unwrap(arg_shipment)
            all == IF sh.extra = None THEN <<>> ELSE AllSuggested(Unwrap(sh.extra))
        IN Unwrap(ret_carrier) =
              IF Contains(all, FEDEX) THEN Some(FEDEX)
              ELSE IF Contains(all, UPS) THEN Some(UPS)
              ELSE IF Contains(all, USPS) THEN Some(USPS)
              ELSE IF all = <<>> THEN None ELSE Some(Head(all))

(* ---------------------------------------------------------------------- *)
(* Properties of track_multiple                                            *)
(* ---------------------------------------------------------------------- *)

Responses(l) == SelectSeq(l, LAMBDA e : e.ev = "response")
Invalidations(l) == SelectSeq(l, LAMBDA e : e.ev = "invalidate")

RECURSIVE IsSubsequence(_, _)
IsSubsequence(a, b) ==
    IF a = <<>> THEN TRUE
    ELSE IF b = <<>> THEN FALSE
    ELSE IF Head(a) = Head(b) THEN IsSubsequence(Tail(a), Tail(b))
    ELSE IsSubsequence(a, Tail(b))

NumbersOf(ships) == [i \in 1..Len(ships) |-> ships[i].number]

(* the first item carrying number n *)
FirstItem(its, n) ==
    its[CHOOSE j \in DOMAIN its :
            its[j].num = n /\ \A k \in DOMAIN its : its[k].num = n => j <= k]

C2_Step ==
    /\ (cpc = "await" /\ cpc' # "await" /\ response_meta' \in {-11, -14})
          => /\ client_credentials # None
             /\ client_credentials' = None
             /\ cpc' = "extract_expired"
             /\ pending_retries' = pending_retries
             /\ final_shipments' = final_shipments
             /\ session_guid' = session_guid
             /\ items' = items
    /\ (cpc = "await" /\ response_meta' \notin {-11, -14})
          => client_credentials' = client_credentials
    /\ (cpc = "extract_expired" /\ client_credentials' # None)
          => /\ cpc' = "await"
             /\ Unwrap(request').data = Unwrap(request).data
             /\ Unwrap(request').guid = Unwrap(request).guid

C2_Scenario ==
    (/\ cpc = "returned"
     /\ result.kind = "ok"
     /\ Len(Responses(log)) = 2
     /\ Responses(log)[1].code = -11
     /\ Responses(log)[2].code = 200)
        => /\ Len(Invalidations(log)) = 1
           /\ \A i \in DOMAIN tracking_numbers :
                \E j \in DOMAIN result.shipments :
                    /\ result.shipments[j].number = tracking_numbers[i]
                    /\ result.shipments[j].code # 100

(* C2: a response with meta code -11 or -14 invalidates the credentials once,
   starts their re-acquisition and, once that succeeds, the same pending
   items are requested again with the same session id; retry counter, result
   map, items and session id are untouched; no other outcome of a request
   invalidates the credentials; a call that returned a result after exactly
   the responses -11 and then 200 has invalidated once and returns every
   number resolved. *)
C2_ExpiryRetry == [][C2_Step]_vars /\ []C2_Scenario

(* C2 witness: a two-number call that got -11, re-acquired, got a success
   and returned both shipments *)
C2_Witness ==
    /\ cpc = "returned"
    /\ log = << LogResponse(-11), LogInvalidation, LogResponse(200) >>
    /\ result.kind = "ok"
    /\ Len(result.shipments) = 2

(* C3: every track_multiple call returns, whatever the API answers. *)
C3_Terminates ==
    (cpc \in {"extract_init", "extract_expired", "await", "sleep"})
        ~> (cpc = "returned")

(* C4: only a failed credential acquisition makes track_multiple return an
   error; a failed tracking request does not. *)
C4_RequestFailureTolerated ==
    (cpc = "returned" /\ result.kind = "err") => result.err = "credential"

(* the step that ends a call on an exhausted retry budget with items still
   pending after classification, and what it must leave; carrier_of(its, i)
   is the carrier the placeholder of item i is to have *)
ExhaustionStep(carrier_of(_, _)) ==
    (cpc = "await" /\ pending_retries = 50 /\ cpc' = "returned")
      => \A out \in RequestOutcomes :
           (out.fail = "none" /\ out.meta \notin {-11, -14} /\ Receive(out))
             => LET done == ProcessShipments(out.shipments, items, final_shipments)
                IN PendingItems(done.items, done.final) # <<>>
                     => /\ result'.kind = "ok"
                        /\ \A i \in DOMAIN done.items :
                             done.final[done.items[i].num] = None
                               => final_shipments'[done.items[i].num] =
                                    Some([code |-> 100,
                                          number |-> done.items[i].num,
                                          carrier |-> carrier_of(done.items, i),
                                          extra |-> None, shipment |-> None])
                        /\ \A n \in Numbers :
                             done.final[n] # None
                               => final_shipments'[n] = done.final[n]
                        /\ \A i \in DOMAIN tracking_numbers :
                             \E j \in DOMAIN result'.shipments :
                               Some(result'.shipments[j]) =
                                   final_shipments'[tracking_numbers[i]]

OwnCarrier(its, i) == its[i].fc
FirstCarrier(its, i) == FirstItem(its, its[i].num).fc

(* C5 as stated: at exhaustion every still-pending item gets a placeholder
   with code 100, no detail and that item's current carrier; resolved items
   keep their results; the call returns Ok. *)
C5_PlaceholderOwnCarrier == [][ExhaustionStep(OwnCarrier)]_vars

(* C5 amended: at exhaustion every still-pending item gets a placeholder
   with code 100, no detail and the current carrier of the first item with
   its tracking number; resolved items keep their results; the call
   returns Ok. *)
C5_PlaceholderFirstCarrier == [][ExhaustionStep(FirstCarrier)]_vars

(* C5 witness: a call returned on the exhausted budget with one real result
   and one placeholder whose carrier was corrected on the way *)
C5_Witness ==
    /\ cpc = "returned"
    /\ pending_retries = 50
    /\ result.kind = "ok"
    /\ Len(result.shipments) = 2
    /\ result.shipments[1].code = 200
    /\ result.shipments[2].code = 100
    /\ result.shipments[2].carrier = FEDEX

(* C6: the numbers of the returned shipments form a subsequence of the
   caller's tracking numbers. *)
C6_InputOrder ==
    (cpc = "returned" /\ result.kind = "ok")
        => IsSubsequence(NumbersOf(result.shipments), tracking_numbers)

(* C6 witness: both numbers of <<A, B>> returned, B resolved in an earlier
   round than A (the last request asked for A alone) *)
C6_Witness ==
    /\ cpc = "returned"
    /\ result.kind = "ok"
    /\ tracking_numbers = << "A", "B" >>
    /\ NumbersOf(result.shipments) = << "A", "B" >>
    /\ IsSome(request)
    /\ Len(Unwrap(request).data) = 1
    /\ Unwrap(request).data[1].num = "A"

(* the numbers of a list of TrackingItems *)
ItemNumbers(its) == [i \in 1..Len(its) |-> its[i].num]

(* a shipment that counts as resolved: not pending, and with events if 200 *)
Resolved(sh) ==
    /\ sh.code # 100
    /\ sh.code = 200 => /\ sh.shipment # None
                        /\ Unwrap(sh.shipment).latest_event # None

C14_Requests ==
    cpc = "await" =>
        /\ IsSome(request)
        /\ ItemNumbers(items) = tracking_numbers
        /\ Unwrap(request).data =
              SelectSeq(items, LAMBDA it : final_shipments[it.num] = None)

(* whatever response is classified (lines 530-552), its code-200 shipments
   with detail get an entry in the result map *)
C14_Classified ==
    cpc = "await" =>
        \A out \in RequestOutcomes :
            \A k \in DOMAIN out.shipments :
                (out.shipments[k].code = 200 /\ Resolved(out.shipments[k]))
                    => ProcessShipments(out.shipments, items, final_shipments)
                           .final[out.shipments[k].number] # None

C14_Step ==
    \A n \in Numbers :
        (final_shipments[n] # None /\ cpc' # "idle") => final_shipments'[n] # None

C14_Scenario ==
    (/\ cpc = "returned" /\ result.kind = "ok"
     /\ tracking_numbers = << "A", "B" >>
     /\ pending_retries < 50
     /\ IsSome(request)
     /\ ItemNumbers(Unwrap(request).data) = << "B" >>)
        => /\ NumbersOf(result.shipments) = << "A", "B" >>
           /\ Resolved(result.shipments[1])
           /\ Resolved(result.shipments[2])

(* C14: every request lists exactly the items whose number has no entry in
   the result map, in input order; an entry of the result map stays, and a
   code-200 shipment with detail gets one, so a resolved item is in no later
   request; a call for <<A, B>> whose last request asked for B alone returns
   <<A, B>>, both resolved. *)
C14_PendingOnly ==
    []C14_Requests /\ []C14_Classified /\ [][C14_Step]_vars /\ []C14_Scenario

(* C14 witness: <<A, B>>, round 1 resolved A and left B pending, round 2
   asked for B alone and resolved it *)
C14_Witness ==
    /\ cpc = "returned" /\ result.kind = "ok"
    /\ tracking_numbers = << "A", "B" >>
    /\ pending_retries = 1
    /\ log = << LogResponse(200), LogResponse(200) >>
    /\ ItemNumbers(Unwrap(request).data) = << "B" >>
    /\ NumbersOf(result.shipments) = << "A", "B" >>
    /\ result.shipments[1].code = 200 /\ result.shipments[2].code = 200

(* the positions of a response's shipments that suggest a carrier for n *)
SuggestionsFor(ships, n) ==
    { k \in DOMAIN ships : /\ ships[k].number = n
                           /\ ships[k].code = 400
                           /\ get_suggested_carrier(ships[k]) # None }

IsFirstItem(its, i) == \A k \in DOMAIN its : its[k].num = its[i].num => i <= k

Highest(S) == CHOOSE k \in S : \A j \in S : j <= k

(* whatever response is classified (lines 530-552): the first item of a
   number gets the carrier of the last suggestion made for it and, unless
   another shipment of the response resolves the number, no entry in the
   result map; every other carrier is as before *)
C15_Classified ==
    cpc = "await" =>
        \A out \in RequestOutcomes :
            LET done == ProcessShipments(out.shipments, items, final_shipments)
            IN /\ ItemNumbers(done.items) = ItemNumbers(items)
               /\ \A i \in DOMAIN items :
                     LET n == items[i].num
                         sug == SuggestionsFor(out.shipments, n)
                     IN IF IsFirstItem(items, i) /\ sug # {}
                          THEN /\ done.items[i].fc =
                                     Unwrap(get_suggested_carrier(
                                                out.shipments[Highest(sug)]))
                               /\ (/\ final_shipments[n] = None
                                   /\ \A k \in DOMAIN out.shipments :
                                         out.shipments[k].number = n => k \in sug)
                                     => done.final[n] = None
                          ELSE done.items[i].fc = items[i].fc

C15_Step ==
    /\ (items # <<>> /\ cpc' # "idle")
          => /\ ItemNumbers(items') = ItemNumbers(items)
             /\ \A i \in DOMAIN items' : items'[i].sc = 0
    /\ (cpc # "await" /\ items # <<>> /\ cpc' # "idle") => items' = items
    /\ (cpc = "await" /\ response_meta' \in {0, -11, -14}) => items' = items
    /\ (cpc \in {"sleep", "extract_expired"} /\ cpc' = "await")
          => Unwrap(request').data =
                SelectSeq(items, LAMBDA it : final_shipments[it.num] = None)

(* C15: a code-400 shipment with a suggested carrier sets the carrier of the
   (first) item with its number to the suggestion, the item stays pending
   and the next request carries it; no other item's carrier changes, and no
   item's number or sub-code (0) changes during the call. *)
C15_CarrierSuggestion == []C15_Classified /\ [][C15_Step]_vars

(* C15 witness: after a code-400 suggestion for A the next request asks for
   A with FedEx and for B with the caller's carrier *)
C15_Witness ==
    /\ cpc = "await"
    /\ pending_retries = 1
    /\ IsSome(request)
    /\ Unwrap(request).data = << [num |-> "A", fc |-> FEDEX, sc |-> 0],
                                 [num |-> "B", fc |-> AUTO, sc |-> 0] >>

C17_Step ==
    /\ (cpc \in {"idle", "extract_init"} /\ cpc' = "await")
          => Unwrap(request').guid = ""
    /\ (cpc \in {"sleep", "extract_expired"} /\ cpc' = "await")
          => Unwrap(request').guid = session_guid
    /\ (cpc = "await" /\ cpc' # "await")
          => session_guid' =
                IF response_meta' \notin {0, -11, -14} /\ response_guid' # ""
                  THEN response_guid' ELSE session_guid
    /\ (cpc # "await" /\ cpc' # "idle") => session_guid' = session_guid
    /\ (session_guid # "" /\ cpc' # "idle") => session_guid' # ""

(* C17: the first request of a call has an empty guid; every later request
   has the stored session id, which each non-expiry response with a
   non-empty guid replaces and nothing else changes; a stored session id is
   never replaced by an empty one. *)
C17_SessionGuid == [][C17_Step]_vars

(* C17 witness: a response gave the guid g1, an expiry response followed,
   and the request sent after the re-acquisition carries g1 *)
C17_Witness ==
    /\ cpc = "await"
    /\ log = << LogResponse(200), LogResponse(-14), LogInvalidation >>
    /\ session_guid = "g1"
    /\ Unwrap(request).guid = "g1"

(* C18: a request that carries a non-empty session id has no last-event-id
   header (and cookie value). *)
C18_HeaderOnlyFirst ==
    (cpc = "await" /\ Unwrap(request).guid # "")
        => Unwrap(request).last_event_id = None

C19_Step ==
    (cpc \in {"extract_init", "extract_expired"} /\ cpc' # cpc)
      => IF client_credentials' = None
           THEN /\ cpc' = "returned"
                /\ result'.kind = "err"
                /\ result'.err = "credential"
                /\ result'.shipments = <<>>
                /\ cpc = "extract_init" => request' = None
           ELSE cpc' = "await"

(* C19: when extract_credentials fails, at the start of the call or after
   an expiry response, the call returns an error and no shipments and the
   client holds no credentials; if it was the initial acquisition, no
   request has been sent. *)
C19_AcquisitionFailureFatal == [][C19_Step]_vars

(* C19 witness: a call got an expiry response, the re-acquisition failed and
   the call returned the error *)
C19_Witness ==
    /\ cpc = "returned"
    /\ result.kind = "err" /\ result.err = "credential"
    /\ log = << LogResponse(-11), LogInvalidation >>
    /\ client_credentials = None
    /\ IsSome(request)

(* C20: a call with no tracking numbers returns Ok with no shipments and
   sends no request, with or without cached credentials. *)
C20_EmptyInput ==
    (cpc = "returned" /\ tracking_numbers = <<>>)
        => /\ result.kind = "ok"
           /\ result.shipments = <<>>
           /\ request = None

(* ---------------------------------------------------------------------- *)
(* CredentialCache: the sandbox run and the lock                           *)
(* ---------------------------------------------------------------------- *)

(* C22: a sandbox run that fails (script error, timeout, empty or oversized
   result) makes refresh_credentials return an error after that single
   run: every step that leaves the run other than with an accepted sign
   ends the call with an error, one run counted and the stored credential
   untouched *)
C22_SandboxFailureReturns ==
    [][\A t \in Tasks :
          (pc[t] = "r_v8" /\ pc'[t] # "r_v8" /\ pc'[t] # "r_wait3")
          => /\ pc'[t] = "idle"
             /\ ret'[t] = [op |-> "refresh", ok |-> FALSE, cred |-> None]
             /\ sandboxCount' = sandboxCount + 1
             /\ credentials' = credentials]_vars

(* the places where refresh_credentials waits for the asset load or for the
   sandbox run *)
Loading == { "r_fetch", "r_v8", "r_hung" }

(* the places where a call holds the lock it asked for *)
Reading == { "g_read", "l_read" }

(* C23: while refresh_credentials waits for the asset load or the sandbox
   run it holds no lock, so a get_valid_credentials or
   generate_last_event_id_for_body call made meanwhile gets the read lock
   (nobody but a running writer keeps it away) and, once it has it, is not
   held up by anything *)
C23_NoLockWhileLoading ==
    /\ \A t \in Tasks :
          pc[t] \in Loading => rw_writer # Some(t) /\ t \notin rw_readers
    /\ (\A t \in Tasks : pc[t] \in Loading \cup Reading \cup { "idle" })
       => ReadFree
    /\ \A t \in Tasks :
          pc[t] \in Reading => t \in rw_readers /\ rw_writer = None

C23_Witness ==
    \E t, u \in Tasks :
        /\ pc[t] = "r_v8"
        /\ pc[u] = "l_read"
        /\ ret[u].op = "get_valid"
        /\ credentials = None

(* ---------------------------------------------------------------------- *)
(* Abandoned calls                                                         *)
(* ---------------------------------------------------------------------- *)

(* the `.await`s of refresh_credentials: the asset fetch, the lock of the
   store of the assets, the sandbox run, the lock of the store of the
   credential.  Everywhere else the call runs without yielding. *)
Suspended == { "r_fetch", "r_wait2", "r_v8", "r_hung", "r_wait3" }

(* the caller drops the future of a refresh_credentials call at one of its
   `.await`s: the call's locals and guards are dropped with it and it
   returns nothing.  A sandbox run handed to spawn_blocking is not
   cancelled: it runs to its end and its result is discarded. *)
Abandon(t) ==
    /\ pc[t] \in Suspended
    /\ Return(t, [op |-> "abandoned", ok |-> FALSE, cred |-> None])
    /\ t_invalidated' = [t_invalidated EXCEPT ![t] = FALSE]
    /\ Release(t)
    /\ sandboxCount' = IF pc[t] = "r_v8" THEN sandboxCount + 1
                       ELSE sandboxCount
    /\ UNCHANGED << credentials, cred_invalidated, cached_assets, yq_bid, now, calls, fetchCount,
                    generated >>
    /\ UNCHANGED << ret_config, clientVars, pureVars, extractVars >>

(* the future is dropped and the MutexGuard of line 178 is leaked with it *)
AbandonCallKeepsMutex ==
    /\ cpc \in { "extract_init", "extract_expired", "await", "sleep" }
    /\ cpc' = "idle"
    /\ tracking_numbers' = <<>>
    /\ carrier_code' = AUTO
    /\ pending_retries' = 0
    /\ session_guid' = ""
    /\ items' = <<>>
    /\ final_shipments' = EmptyMap
    /\ request' = None
    /\ result' = [kind |-> "abandoned", err |-> "", shipments |-> <<>>,
                  guid |-> ""]
    /\ response_meta' = 0
    /\ response_guid' = ""
    /\ log' = <<>>
    /\ UNCHANGED << client_credentials, credential_mutex >>
    /\ UNCHANGED << cacheVars, pureVars, extractVars >>

(* the caller drops the future of a track_multiple call at one of its
   `.await`s: inside extract_credentials (lines 178-234, the MutexGuard
   `_lock` is a local of that future), waiting for the response (line 495)
   or for the retry delay (line 607).  Every local of the call is dropped;
   self.credentials is a field of the client and stays as it is. *)
AbandonCall ==
    /\ cpc \in { "extract_init", "extract_expired", "await", "sleep" }
    /\ cpc' = "idle"
    /\ tracking_numbers' = <<>>
    /\ carrier_code' = AUTO
    /\ pending_retries' = 0
    /\ session_guid' = ""
    /\ items' = <<>>
    /\ final_shipments' = EmptyMap
    /\ request' = None
    /\ result' = [kind |-> "abandoned", err |-> "", shipments |-> <<>>,
                  guid |-> ""]
    /\ response_meta' = 0
    /\ response_guid' = ""
    /\ log' = <<>>
    /\ credential_mutex' = FALSE
    /\ UNCHANGED client_credentials
    /\ UNCHANGED << cacheVars, pureVars, extractVars >>

(* The client and the cache share no state, so their steps commute: it is
   enough to run one of them at a time, the other staying as constructed. *)
CancelNext ==
    \/ /\ cpc = "idle" /\ client_credentials = None /\ result = NoResult
       /\ \/ CacheNext
          \/ \E t \in Tasks : Abandon(t)
    \/ /\ calls = 0 /\ now = 0
       /\ \/ ClientNext
          \/ AbandonCall

SpecCancel == Init /\ [][CancelNext]_vars

(* C24: abandoning a call at any of its suspension points leaves no lock
   held (a task that is suspended or has stopped holds neither side of the
   RwLock, the credential mutex is free whenever no call is running) and
   leaves each credential store absent or holding a complete credential,
   so that a later call finds the locks free *)
C24_AbandonSafe ==
    /\ \A t \in Tasks :
          pc[t] \in Suspended \cup { "idle" }
          => rw_writer # Some(t) /\ t \notin rw_readers
    /\ (\A t \in Tasks : pc[t] = "idle") => WriteFree /\ ReadFree
    /\ cpc \in { "idle", "returned" } => ~credential_mutex
    /\ IsSome(credentials)
          => /\ Unwrap(credentials).sign # <<>>
             /\ UnitOf(Unwrap(credentials)) \in generated
    /\ IsSome(client_credentials)
          => Unwrap(client_credentials) \in ExtractedCredentials

(* C24 witness: a call was abandoned inside a re-acquisition of credentials:
   the store is empty and the mutex free *)
C24_Witness ==
    /\ cpc = "idle"
    /\ result.kind = "abandoned"
    /\ client_credentials = None
    /\ ~credential_mutex

(* ---------------------------------------------------------------------- *)
(* Track17Client: the result map and the retry budget                      *)
(* ---------------------------------------------------------------------- *)

(* C21: a shipment of the returned list has code 100 if and only if it is a
   placeholder made at budget exhaustion.  Until the call returns, every
   entry of the result map is a shipment of a response that is neither
   code 100 nor a code 200 without an event; in the returned list a
   shipment with code 100 is the placeholder of its number (no detail, the
   carrier of the first item with that number) and the budget is used up,
   and every other shipment is such a response shipment *)
C21_PendingIsPlaceholder ==
    /\ cpc # "returned"
          => \A n \in Numbers :
                IsSome(final_shipments[n])
                  => Resolved(Unwrap(final_shipments[n]))
    /\ (cpc = "returned" /\ result.kind = "ok")
          => \A i \in DOMAIN result.shipments :
                LET sh == result.shipments[i]
                IN IF sh.code = 100
                     THEN /\ pending_retries = 50
                          /\ sh = [code |-> 100, number |-> sh.number,
                                   carrier |-> FirstItem(items, sh.number).fc,
                                   extra |-> None, shipment |-> None]
                     ELSE Resolved(sh)

(* C21 witness: the budget ran out with the first number still pending and
   the second resolved by a response *)
C21_Witness ==
    /\ cpc = "returned"
    /\ result.kind = "ok"
    /\ tracking_numbers = << "A", "B" >>
    /\ result.shipments[1].code = 100
    /\ result.shipments[1].carrier = AUTO
    /\ result.shipments[2].code = 400

C29_Step ==
    /\ pending_retries' # pending_retries
          => \/ cpc' = "idle" /\ pending_retries' = 0
             \/ /\ pending_retries' = pending_retries + 1
                /\ cpc = "await" /\ cpc' = "sleep"
                /\ response_meta' \notin {-11, -14}
                /\ \E i \in DOMAIN items' :
                      final_shipments'[items'[i].num] = None
    /\ (cpc = "await" /\ cpc' = "sleep")
          => pending_retries' = pending_retries + 1
    /\ (cpc # "await" /\ cpc' = "await")
          => \/ cpc \in {"idle", "extract_init"} /\ pending_retries' = 0
             \/ cpc = "extract_expired"
             \/ cpc = "sleep" /\ pending_retries' = pending_retries

(* C29: the retry counter changes only by going up by one, in a round that
   is not an expiry and leaves an item pending, and is never above 50.
   Every request is the first of the call (counter 0), follows an expiry,
   or follows the delay of a counted round; as long as the log is whole and
   without an expiry, the request in flight is number counter + 1; so a
   call without expiry sends at most 51 requests *)
C29_RetryBudget ==
    /\ [](pending_retries \in 0..50)
    /\ [](cpc = "sleep" => pending_retries >= 1)
    /\ []((cpc = "await" /\ log # LogMany /\ Invalidations(log) = <<>>)
             => Len(Responses(log)) = pending_retries)
    /\ [][C29_Step]_vars

(* C29 witness: the 51st request of a call is in flight *)
C29_Witness ==
    /\ cpc = "await"
    /\ pending_retries = 50
    /\ ItemNumbers(Unwrap(request).data) = << "B" >>

(* C30: an entry of the result map is never replaced or removed while the
   call runs *)
C30_EntryKept ==
    [][\A n \in Numbers :
          (IsSome(final_shipments[n]) /\ cpc' # "idle")
          => final_shipments'[n] = final_shipments[n]]_vars

(* ---------------------------------------------------------------------- *)
(* last_event_id.rs: 32-bit arithmetic on pairs of 16-bit halves           *)
(* ---------------------------------------------------------------------- *)

W16 == 2^16

(* the 32-bit value of a number below 2^31 *)
U32(n) == << n \div W16, n % W16 >>

(* the number of a 32-bit value below 2^31 *)
ToNat(x) == x[1] * W16 + x[2]

(* i32::wrapping_add *)
wrapping_add(x, y) ==
    LET lo == x[2] + y[2]
    IN << (x[1] + y[1] + lo \div W16) % W16, lo % W16 >>

(* i32::wrapping_mul by a factor below 2^15 *)
wrapping_mul(x, k) ==
    LET lo == x[2] * k
    IN << (x[1] * k + lo \div W16) % W16, lo % W16 >>

(* `<<` of an i32 by k < 16 bits, and by 16 bits: the bits shifted out are
   lost *)
Shl(x, k) == wrapping_mul(x, 2^k)
Shl16(x) == << x[2], 0 >>

(* the shift filling with zeros instead of the sign *)
Sar2Logical(x) ==
    << x[1] \div 4, x[2] \div 4 + (x[1] % 4) * 2^14 >>

(* `>> 2` of an i32: the sign bit is copied into the two bits freed *)
Sar2(x) ==
    << x[1] \div 4 + (IF x[1] >= 2^15 THEN 3 * 2^14 ELSE 0),
       x[2] \div 4 + (x[1] % 4) * 2^14 >>

RECURSIVE Xor16(_, _, _)
Xor16(a, b, n) ==
    IF n = 0 THEN 0
    ELSE ((a + b) % 2) + 2 * Xor16(a \div 2, b \div 2, n - 1)

(* `^` of two i32 *)
BitXor(x, y) == << Xor16(x[1], y[1], 16), Xor16(x[2], y[2], 16) >>

(* `0x7fffffff & l` *)
ClearSign(x) == << x[1] % 2^15, x[2] >>

(* i32::unsigned_abs: the two's complement negation of a negative value *)
unsigned_abs(x) ==
    IF x[1] >= 2^15
      THEN wrapping_add(<< W16 - 1 - x[1], W16 - 1 - x[2] >>, U32(1))
      ELSE x

(* `.chars().rev()` *)
Reverse(s) == [i \in 1..Len(s) |-> s[Len(s) + 1 - i]]

(* ---------------------------------------------------------------------- *)
(* last_event_id.rs: djb2 and murmur_hash                                  *)
(* ---------------------------------------------------------------------- *)

(* line 45 *)
DJB2_SEED == 5381

(* line 68: 0x4e67c6a7 *)
MURMUR_SEED == 1315423911

(* lines 46-48: the loop, from the value `a` on the characters `chars`
   still to come *)
RECURSIVE djb2_loop(_)
djb2_loop(st) ==
    IF st.chars = <<>> THEN st.a
    ELSE djb2_loop([chars |-> Tail(st.chars),
                    a |-> BitXor(wrapping_mul(st.a, 33), U32(Head(st.chars)))])

(* the characters taken from the front *)
djb2Forward(s) ==
    IF s = <<>> THEN U32(0)
    ELSE djb2_loop([chars |-> s, a |-> U32(DJB2_SEED)])

(* lines 41-50 *)
djb2(s) ==
    IF s = <<>> THEN U32(0)
    ELSE djb2_loop([chars |-> Reverse(s), a |-> U32(DJB2_SEED)])

(* lines 69-75: the loop, from the value `l` on the characters `chars`
   still to come *)
RECURSIVE murmur_loop(_)
murmur_loop(st) ==
    IF st.chars = <<>> THEN st.l
    ELSE LET o == U32(Head(st.chars))
             val == wrapping_add(wrapping_add(Shl(st.l, 5), o), Sar2(st.l))
         IN murmur_loop([chars |-> Tail(st.chars), l |-> BitXor(st.l, val)])

(* lines 64-77; t is not negative *)
murmur_hash(s, t) ==
    IF s = <<>> THEN U32(0)
    ELSE unsigned_abs(ClearSign(
             murmur_loop([chars |-> Reverse(s),
                          l |-> BitXor(U32(MURMUR_SEED), Shl16(U32(t)))])))

(* ---- the calls on their own ------------------------------------------- *)

MaxHashLen == 4

(* e, s, t and a character outside the Basic Multilingual Plane *)
HashAlphabet == { 101, 115, 116, 128512 }

(* "test" *)
TestString == << 116, 101, 115, 116 >>

(* the metadata string of test_known_hashes (lines 297-298) *)
KnownMetadata ==
    << 71, 45, 69, 65, 54, 67, 70, 68, 66, 52, 48, 51, 52, 57, 51, 70, 50, 65,
       58, 102, 97, 108, 115, 101, 58, 49, 48, 50, 50, 50, 48, 48, 50, 48, 53,
       58, 48, 58, 48, 47, 49, 57, 98, 102, 54, 100, 101, 100, 57, 102, 54, 47,
       49, 49, 47, 116, 114, 117, 101, 47, 51, 48, 48, 47, 49, 48, 50, 50, 50,
       48, 48, 50, 48, 53, 47, 49, 46, 48, 46, 49, 53, 54, 47, 48 >>

HashStrings ==
    UNION { [1..n -> HashAlphabet] : n \in 0..MaxHashLen }
    \cup { TestString, KnownMetadata }

(* seeds whose shift leaves the sign clear, sets it, and loses bits *)
HashSeeds == { 0, 5, 40000, 65537 }

InitHash ==
    /\ CacheInit
    /\ ClientInit
    /\ ExtractIdle
    /\ config_proxy = "none"
    /\ arg_shipment = None
    /\ ret_carrier = None
    /\ LastEventIdIdle
    /\ hash_arg \in HashStrings
    /\ hash_seed \in HashSeeds
    /\ djb2_ret = None
    /\ murmur_ret = None

Djb2 ==
    /\ djb2_ret = None
    /\ djb2_ret' = Some(djb2(hash_arg))
    /\ UNCHANGED << hash_arg, hash_seed, murmur_ret, arg_shipment, ret_carrier,
                    lastEventIdVars, cacheVars, clientVars, extractVars >>

MurmurHash ==
    /\ murmur_ret = None
    /\ murmur_ret' = Some(murmur_hash(hash_arg, hash_seed))
    /\ UNCHANGED << hash_arg, hash_seed, djb2_ret, arg_shipment, ret_carrier,
                    lastEventIdVars, cacheVars, clientVars, extractVars >>

SpecHash == InitHash /\ [][Djb2 \/ MurmurHash]_vars

(* ---- the reference: 32-bit two's complement on bit vectors ------------- *)

(* the k low bits of n, lowest first *)
RECURSIVE BitsOfNum(_, _)
BitsOfNum(n, k) ==
    IF k = 0 THEN <<>> ELSE << n % 2 >> \o BitsOfNum(n \div 2, k - 1)

(* the 32 bits of a pair of halves *)
Bits32(x) == BitsOfNum(x[2], 16) \o BitsOfNum(x[1], 16)

RECURSIVE BvAddFrom(_, _, _, _)
BvAddFrom(x, y, i, carry) ==
    IF i > 32 THEN <<>>
    ELSE << (x[i] + y[i] + carry) % 2 >>
         \o BvAddFrom(x, y, i + 1, (x[i] + y[i] + carry) \div 2)

(* addition modulo 2^32 *)
BvAdd(x, y) == BvAddFrom(x, y, 1, 0)

RECURSIVE BvXorFrom(_, _, _)
BvXorFrom(x, y, i) ==
    IF i > 32 THEN <<>>
    ELSE << (x[i] + y[i]) % 2 >> \o BvXorFrom(x, y, i + 1)

BvXor(x, y) == BvXorFrom(x, y, 1)

(* shift left by k, zeros coming in *)
BvShl(x, k) == [i \in 1..k |-> 0] \o SubSeq(x, 1, 32 - k)

(* shift right by k, the sign bit coming in *)
BvSar(x, k) == SubSeq(x, k + 1, 32) \o [i \in 1..k |-> x[32]]

(* acc <- (acc * 33) XOR code point, for the characters from position
   st.i down to the first *)
RECURSIVE RefDjb2Down(_, _)
RefDjb2Down(s, st) ==
    IF st.i = 0 THEN st.acc
    ELSE RefDjb2Down(s, [i |-> st.i - 1,
                         acc |-> BvXor(BvAdd(BvShl(st.acc, 5), st.acc),
                                       BitsOfNum(s[st.i], 32))])

RefDjb2(s) ==
    IF s = <<>> THEN BitsOfNum(0, 32)
    ELSE RefDjb2Down(s, [i |-> Len(s), acc |-> BitsOfNum(5381, 32)])

(* acc <- acc XOR ((acc << 5) + code point + (acc >> 2)), for the
   characters from position st.i down to the first *)
RECURSIVE RefMurmurDown(_, _)
RefMurmurDown(s, st) ==
    IF st.i = 0 THEN st.acc
    ELSE RefMurmurDown(s,
             [i |-> st.i - 1,
              acc |-> BvXor(st.acc,
                            BvAdd(BvAdd(BvShl(st.acc, 5), BitsOfNum(s[st.i], 32)),
                                  BvSar(st.acc, 2)))])

(* from 0x4e67c6a7 XOR (seed << 16); the low 31 bits of the accumulator *)
RefMurmur(s, t) ==
    IF s = <<>> THEN BitsOfNum(0, 32)
    ELSE SubSeq(RefMurmurDown(s,
                    [i |-> Len(s),
                     acc |-> BvXor(BitsOfNum(1315423911, 32),
                                   BvShl(BitsOfNum(t, 32), 16))]),
                1, 31) \o << 0 >>

(* C25: djb2 is 0 on the empty string and otherwise the reference: from
   5381, over the code points from last to first, acc <- (acc * 33) XOR
   code point in 32-bit wraparound arithmetic, the accumulator returned as
   an unsigned 32-bit value; djb2("test") is 2087933171 *)
C25_Djb2Reference ==
    IsSome(djb2_ret) =>
        /\ hash_arg = <<>> => Unwrap(djb2_ret) = << 0, 0 >>
        /\ Bits32(Unwrap(djb2_ret)) = RefDjb2(hash_arg)
        /\ hash_arg = TestString => ToNat(Unwrap(djb2_ret)) = 2087933171

(* C25 witness: djb2("test") has returned *)
C25_Witness ==
    /\ hash_arg = TestString
    /\ IsSome(djb2_ret)
    /\ murmur_ret = None

(* C26: murmur_hash is 0 on the empty string and otherwise the reference:
   from 0x4e67c6a7 XOR (seed << 16), over the code points from last to
   first, acc <- acc XOR ((acc << 5) + code point + (acc >> 2)) in 32-bit
   signed arithmetic with an arithmetic right shift, the low 31 bits
   returned; the result is below 2^31; the known metadata string with seed
   0 gives 0x20b04e11 *)
C26_MurmurReference ==
    IsSome(murmur_ret) =>
        /\ hash_arg = <<>> => Unwrap(murmur_ret) = << 0, 0 >>
        /\ Unwrap(murmur_ret)[1] < 2^15
        /\ Bits32(Unwrap(murmur_ret)) = RefMurmur(hash_arg, hash_seed)
        /\ (hash_arg = KnownMetadata /\ hash_seed = 0)
              => ToNat(Unwrap(murmur_ret)) = 548425233

(* C26 witness: the hash of the known metadata string with seed 0 has
   returned *)
C26_Witness ==
    /\ hash_arg = KnownMetadata
    /\ hash_seed = 0
    /\ IsSome(murmur_ret)
    /\ djb2_ret = None

(* ---------------------------------------------------------------------- *)
(* last_event_id.rs: generate_last_event_id                                *)
(* ---------------------------------------------------------------------- *)

(* the character of a hexadecimal digit, lower case *)
HexDigit(d) == IF d < 10 THEN 48 + d ELSE 87 + d

(* `{:x}` of a number below 2^31 *)
RECURSIVE LowerHex(_)
LowerHex(n) ==
    IF n < 16 THEN << HexDigit(n) >>
    ELSE LowerHex(n \div 16) \o << HexDigit(n % 16) >>

(* `{}` of an unsigned number below 2^31 *)
RECURSIVE Decimal(_)
Decimal(n) ==
    IF n < 10 THEN << 48 + n >>
    ELSE Decimal(n \div 10) \o << 48 + (n % 10) >>

(* `{}` of an i32 *)
Display(n) == IF n < 0 THEN << 45 >> \o Decimal(0 - n) ELSE Decimal(n)

(* the four hexadecimal digits of a 16-bit half *)
Hex4(h) ==
    << HexDigit(h \div 4096), HexDigit((h \div 256) % 16),
       HexDigit((h \div 16) % 16), HexDigit(h % 16) >>

RECURSIVE StripZeros(_)
StripZeros(digits) ==
    IF Len(digits) > 1 /\ Head(digits) = 48 THEN StripZeros(Tail(digits))
    ELSE digits

(* `{:x}`: the digits without the padding *)
pad8_hexUnpadded(value) == StripZeros(Hex4(value[1]) \o Hex4(value[2]))

(* lines 80-82: `{:08x}` of a u32 *)
pad8_hex(value) == Hex4(value[1]) \o Hex4(value[2])

(* lines 156-162: `{:x}` of the milliseconds, given in 16-bit digits *)
RECURSIVE Hex4All(_)
Hex4All(halves) ==
    IF halves = <<>> THEN <<>> ELSE Hex4(Head(halves)) \o Hex4All(Tail(halves))

TimestampHex(millis) == StripZeros(Hex4All(millis))

(* the characters left as they are *)
hex_encode_charsRaw(s) == s

(* lines 94-106 *)
RECURSIVE hex_encode_chars(_)
hex_encode_chars(s) ==
    IF s = <<>> THEN <<>>
    ELSE LowerHex(Head(s)) \o hex_encode_chars(Tail(s))

(* str::len: the length in bytes of the UTF-8 encoding *)
RECURSIVE ByteLen(_)
ByteLen(s) ==
    IF s = <<>> THEN 0
    ELSE (IF Head(s) < 128 THEN 1 ELSE IF Head(s) < 2048 THEN 2
          ELSE IF Head(s) < 65536 THEN 3 ELSE 4) + ByteLen(Tail(s))

(* lines 175-178: the metadata string *)
Metadata(t_value, s, timestamp_hex, config, r) ==
    t_value \o << 58, 102, 97, 108, 115, 101, 58 >>           \* ":false:"
    \o Decimal(s) \o << 58, 48, 58, 48, 47 >>                 \* ":0:0/"
    \o timestamp_hex \o << 47, 49, 49, 47, 116, 114, 117, 101, 47 >>
                                                              \* "/11/true/"
    \o Display(config.tz_offset) \o << 47 >>
    \o Decimal(s) \o << 47 >>
    \o config.configs_md5 \o << 47 >>
    \o Decimal(r)

(* lines 140-191, `millis` being what the clock gives at line 158 *)
generate_last_event_id(request_body_json, config, millis) ==
    LET body_hash == murmur_hash(request_body_json, ByteLen(request_body_json))
        c5 == pad8_hex(body_hash)
        s == config.canvas_hash
        r == 0
        timestamp_hex == TimestampHex(millis)
        t_value == IF config.yq_bid = <<>> THEN Decimal(s) ELSE config.yq_bid
        a == Metadata(t_value, s, timestamp_hex, config, r)
        metadata_hash == murmur_hash(a, 0)
        c4 == pad8_hex(metadata_hash)
        c3 == << 52 >>                                        \* "4"
        c0 == hex_encode_chars(Reverse(a))
    IN c0 \o c3 \o c4 \o c5

(* ---- the calls on their own ------------------------------------------- *)

MaxBodyLen == 2

(* "{" and a character of two bytes *)
BodyAlphabet == { 123, 233 }

Bodies == UNION { [1..n -> BodyAlphabet] : n \in 0..MaxBodyLen }

(* no device id and "G-1"; the default version and "a b"; the default
   offset and a negative one; the default canvas hash *)
Configs ==
    { [yq_bid |-> b, configs_md5 |-> m, tz_offset |-> z, canvas_hash |-> h] :
        b \in { <<>>, << 71, 45, 49 >> },
        m \in { << 49, 46, 48, 46, 49, 53, 54 >>, << 97, 32, 98 >> },
        z \in { DEFAULT_TZ_OFFSET, -480 },
        h \in { DEFAULT_CANVAS_HASH } }

(* 0 and 0x19bf6ded9f6 *)
Millis == { << 0 >>, << 411, 63198, 55798 >> }

InitLastEventId ==
    /\ CacheInit
    /\ ClientInit
    /\ ExtractIdle
    /\ config_proxy = "none"
    /\ arg_shipment = None
    /\ ret_carrier = None
    /\ HashIdle
    /\ arg_bodies \in Bodies \X Bodies
    /\ arg_config \in { Some(c) : c \in Configs }
    /\ arg_millis \in Millis
    /\ ret_last_event_id = << None, None >>

(* the i-th call *)
GenerateLastEventId(i) ==
    /\ arg_config # None
    /\ ret_last_event_id[i] = None
    /\ ret_last_event_id' =
          [ret_last_event_id EXCEPT ![i] =
              Some(generate_last_event_id(arg_bodies[i], Unwrap(arg_config),
                                          arg_millis))]
    /\ UNCHANGED << arg_bodies, arg_config, arg_millis, arg_shipment,
                    ret_carrier, hashVars, cacheVars, clientVars,
                    extractVars >>

SpecLastEventId ==
    InitLastEventId /\ [][\E i \in 1..2 : GenerateLastEventId(i)]_vars

(* the characters 0-9, a-f and A-F *)
HexDigitChars == (48..57) \cup (97..102) \cup (65..70)

(* C27: the output of generate_last_event_id is never empty and holds only
   hexadecimal digits, whatever the body and the configuration, the empty
   device id included *)
C27_HexOnly ==
    \A i \in 1..2 :
        IsSome(ret_last_event_id[i]) =>
            /\ Unwrap(ret_last_event_id[i]) # <<>>
            /\ \A k \in DOMAIN Unwrap(ret_last_event_id[i]) :
                  Unwrap(ret_last_event_id[i])[k] \in HexDigitChars

(* C27 witness: a call without device id, with a negative offset, a version
   holding a space and a body holding a two-byte character has returned *)
C27_Witness ==
    /\ IsSome(ret_last_event_id[1])
    /\ Unwrap(arg_config).yq_bid = <<>>
    /\ Unwrap(arg_config).tz_offset < 0
    /\ Unwrap(arg_config).configs_md5 = << 97, 32, 98 >>
    /\ arg_bodies[1] = << 233 >>
    /\ ret_last_event_id[2] = None

(* C28: with the millisecond given, two calls that differ only in the body
   give outputs of the same length that agree everywhere but in their last
   8 digits, and two calls with the same body give the same output *)
C28_BodyInTail ==
    (IsSome(ret_last_event_id[1]) /\ IsSome(ret_last_event_id[2])) =>
        LET a == Unwrap(ret_last_event_id[1])
            b == Unwrap(ret_last_event_id[2])
        IN /\ Len(a) = Len(b)
           /\ Len(a) >= 8
           /\ SubSeq(a, 1, Len(a) - 8) = SubSeq(b, 1, Len(b) - 8)
           /\ arg_bodies[1] = arg_bodies[2] => a = b

(* C28 witness: two calls with different bodies have returned outputs that
   differ *)
C28_Witness ==
    /\ IsSome(ret_last_event_id[1])
    /\ IsSome(ret_last_event_id[2])
    /\ arg_bodies[1] = <<>>
    /\ arg_bodies[2] = << 123, 233 >>
    /\ ret_last_event_id[1] # ret_last_event_id[2]

(* the metadata string of the claim, for a configuration and the
   millisecond in hexadecimal:
   "{device_id}:false:{canvas}:0:0/{epochMillisHex}/11/true/{tz}/{canvas}/{version}/0",
   the device id being the canvas hash when it is empty *)
MetaOf(config, epochMillisHex) ==
    (IF config.yq_bid = <<>> THEN Decimal(config.canvas_hash)
     ELSE config.yq_bid)
    \o << 58, 102, 97, 108, 115, 101, 58 >>
    \o Decimal(config.canvas_hash)
    \o << 58, 48, 58, 48, 47 >>
    \o epochMillisHex
    \o << 47, 49, 49, 47, 116, 114, 117, 101, 47 >>
    \o Display(config.tz_offset)
    \o << 47 >>
    \o Decimal(config.canvas_hash)
    \o << 47 >>
    \o config.configs_md5
    \o << 47, 48 >>

(* hexenc(reverse(meta)) + "4" + pad8(murmur_hash(meta, 0))
   + pad8(murmur_hash(body, seed)) *)
OutputOf(meta, body, seed) ==
    hex_encode_chars(Reverse(meta)) \o << 52 >>
    \o pad8_hex(murmur_hash(meta, 0)) \o pad8_hex(murmur_hash(body, seed))

(* C31: the output of generate_last_event_id is
   hexenc(reverse(meta)) + "4" + pad8(murmur_hash(meta, 0))
   + pad8(murmur_hash(body, length(body))), the length of the body being
   the number of its characters *)
C31_OutputFormula ==
    \A i \in 1..2 :
        IsSome(ret_last_event_id[i]) =>
            Unwrap(ret_last_event_id[i]) =
                OutputOf(MetaOf(Unwrap(arg_config), TimestampHex(arg_millis)),
                         arg_bodies[i], Len(arg_bodies[i]))

(* the same with the length of the body in bytes *)
C31_ByteLength ==
    \A i \in 1..2 :
        IsSome(ret_last_event_id[i]) =>
            Unwrap(ret_last_event_id[i]) =
                OutputOf(MetaOf(Unwrap(arg_config), TimestampHex(arg_millis)),
                         arg_bodies[i], ByteLen(arg_bodies[i]))

(* ---------------------------------------------------------------------- *)
(* CredentialCache: the header, the bundle of a credential, invalidation   *)
(* ---------------------------------------------------------------------- *)

(* C32: generate_last_event_id_for_body changes neither the credential nor
   the cached assets nor the device id, and computes the header with the
   cache's device id and the configs_md5 of the assets cached at that
   moment, or the version "1.0.156" when none are cached *)
C32_HeaderFromCache ==
    [][\A t \in Tasks :
          /\ (pc[t] = "idle" /\ pc'[t] = "l_read")
                => /\ credentials' = credentials
                   /\ cached_assets' = cached_assets
                   /\ yq_bid' = yq_bid
          /\ (pc[t] = "l_read" /\ pc'[t] = "idle")
                => /\ credentials' = credentials
                   /\ cached_assets' = cached_assets
                   /\ yq_bid' = yq_bid
                   /\ ret'[t] = [op |-> "last_event_id", ok |-> TRUE,
                                 cred |-> None]
                   /\ IsSome(ret_config'[t])
                   /\ Unwrap(ret_config'[t]).yq_bid = yq_bid
                   /\ Unwrap(ret_config'[t]).configs_md5 =
                         (IF cached_assets = None THEN "1.0.156"
                          ELSE Unwrap(cached_assets).configs_md5)]_vars

(* C32 witness: one call computed the header with the default version,
   another with the version of the cached assets *)
C32_Witness ==
    \E t, u \in Tasks :
        /\ ret[t].op = "last_event_id" /\ ret[u].op = "last_event_id"
        /\ pc[t] = "idle" /\ pc[u] = "idle"
        /\ IsSome(ret_config[t]) /\ IsSome(ret_config[u])
        /\ Unwrap(ret_config[t]).configs_md5 = "1.0.156"
        /\ IsSome(cached_assets)
        /\ Unwrap(ret_config[u]).configs_md5 = Unwrap(cached_assets).configs_md5

(* ---------------------------------------------------------------------- *)
(* Track17Client::extract_credentials, step by step                        *)
(* ---------------------------------------------------------------------- *)

(* Track17Config::proxy: none, one without a username, one with *)
ProxyConfigs == { "none", "direct", "auth" }

(* lines 181-183: the double-check under the mutex *)
DoubleCheck(creds) == creds # None

(* lines 178-209, up to the await of Browser::launch: the mutex is held
   (taken when the call entered, see TrackMultiple and Receive), the
   double-check, the local proxy for an authenticated upstream
   (LocalProxy::start binds a listener and can fail, LocalProxy::run spawns
   the accept loop), the browser configuration (fails when no Chrome
   executable is found).  Each `?` returns at once. *)
PrepareBrowser(start_ok, build_ok) ==
    /\ cpc \in {"extract_init", "extract_expired"}
    /\ epc = "none"
    /\ UNCHANGED << config_proxy, running_browsers >>
    /\ IF DoubleCheck(client_credentials)
         THEN /\ ExtractResult(client_credentials)
              /\ UNCHANGED << epc, local_proxy_task, browser, handler_task,
                              extract_result >>
         ELSE /\ browser' = "none"
              /\ handler_task' = "none"
              /\ extract_result' = None
              /\ IF config_proxy = "auth" /\ ~start_ok
                   THEN \* line 194
                        /\ local_proxy_task' = "none"
                        /\ epc' = "none"
                        /\ ExtractResult(None)
                   ELSE /\ local_proxy_task' =
                              IF config_proxy = "auth" THEN "running" ELSE "none"
                        /\ IF build_ok
                             THEN /\ epc' = "launch"
                                  /\ UNCHANGED clientVars
                             ELSE \* lines 202, 206, 209
                                  /\ epc' = "none"
                                  /\ ExtractResult(None)
    /\ UNCHANGED << cacheVars, pureVars >>

(* lines 212-216: Browser::launch ends; on Ok the handler task is spawned
   and do_extract_credentials starts, on Err the `?` returns *)
LaunchBrowser(ok) ==
    /\ cpc \in {"extract_init", "extract_expired"}
    /\ epc = "launch"
    /\ UNCHANGED << config_proxy, local_proxy_task, extract_result >>
    /\ IF ok
         THEN /\ browser' = "running"
              /\ running_browsers' = running_browsers + 1
              /\ handler_task' = "running"
              /\ epc' = "extracting"
              /\ UNCHANGED clientVars
         ELSE /\ epc' = "none"
              /\ ExtractResult(None)
              /\ UNCHANGED << browser, handler_task, running_browsers >>
    /\ UNCHANGED << cacheVars, pureVars >>

(* line 219: do_extract_credentials ends with `out`, and browser.close()
   is awaited *)
DoExtractCredentials(out) ==
    /\ cpc \in {"extract_init", "extract_expired"}
    /\ epc = "extracting"
    /\ extract_result' = Some(out)
    /\ epc' = "closing"
    /\ UNCHANGED << config_proxy, local_proxy_task, browser, handler_task,
                    running_browsers >>
    /\ UNCHANGED << cacheVars, clientVars, pureVars >>

(* the browser is neither closed nor dropped when the function returns *)
CloseBrowserLeaks(ok) ==
    /\ cpc \in {"extract_init", "extract_expired"}
    /\ epc = "closing"
    /\ browser' = "close_failed"
    /\ handler_task' = "aborted"
    /\ local_proxy_task' =
          IF local_proxy_task = "running" THEN "aborted" ELSE local_proxy_task
    /\ epc' = "none"
    /\ ExtractResult(Unwrap(extract_result))
    /\ UNCHANGED << config_proxy, extract_result, running_browsers >>
    /\ UNCHANGED << cacheVars, pureVars >>

(* lines 221-234: browser.close() ends, well or not; the handler task and
   the proxy task are aborted, the result is returned and the Browser value
   is dropped with the function's locals (line 235) *)
CloseBrowser(ok) ==
    /\ cpc \in {"extract_init", "extract_expired"}
    /\ epc = "closing"
    /\ browser' = IF ok THEN "closed" ELSE "close_failed"
    /\ running_browsers' = running_browsers - 1
    /\ handler_task' = "aborted"
    /\ local_proxy_task' =
          IF local_proxy_task = "running" THEN "aborted" ELSE local_proxy_task
    /\ epc' = "none"
    /\ ExtractResult(Unwrap(extract_result))
    /\ UNCHANGED << config_proxy, extract_result >>
    /\ UNCHANGED << cacheVars, pureVars >>

(* calls with at most one number, answered with at most one shipment *)
ExtractInputs == { nums \in Inputs : Len(nums) <= 1 }
ExtractRequestOutcomes == { out \in RequestOutcomes : Len(out.shipments) <= 1 }

InitExtract ==
    /\ CacheInit
    /\ ClientInit
    /\ PureIdle
    /\ ExtractIdle
    /\ config_proxy \in ProxyConfigs

ExtractNext ==
    \/ \E nums \in ExtractInputs : TrackMultiple(nums, AUTO)
    \/ \E start_ok, build_ok \in BOOLEAN : PrepareBrowser(start_ok, build_ok)
    \/ \E ok \in BOOLEAN : LaunchBrowser(ok)
    \/ \E out \in ExtractOutcomes : DoExtractCredentials(out)
    \/ \E ok \in BOOLEAN : CloseBrowser(ok)
    \/ \E out \in ExtractRequestOutcomes : Receive(out)
    \/ WakeAndSend
    \/ CallEnds
    \/ clear_credentials

SpecExtract == InitExtract /\ [][ExtractNext]_vars

(* C33: a browser is launched only while the client holds no cached
   credentials; a call that starts while credentials are cached goes to its
   first request without entering extract_credentials; while a browser runs
   no credentials are cached; and at most one browser launched by the
   client is running at any time *)
C33_LaunchOnlyWithoutCredentials ==
    /\ [](running_browsers <= 1)
    /\ [](running_browsers > 0 =>
            /\ client_credentials = None
            /\ credential_mutex
            /\ cpc \in {"extract_init", "extract_expired"})
    /\ [][running_browsers' > running_browsers =>
            /\ client_credentials = None
            /\ client_credentials' = None]_vars
    /\ [][(cpc = "idle" /\ cpc' # "idle" /\ client_credentials # None) =>
            /\ cpc' \in {"await", "returned"}
            /\ running_browsers' = running_browsers
            /\ epc' = "none"]_vars

(* C33 witness: the one browser launched after an expiry response is
   running *)
C33_Witness ==
    /\ cpc = "extract_expired"
    /\ browser = "running"
    /\ running_browsers = 1
    /\ response_meta \in {INVALID_SIGN_CODE, INVALID_SESSION_CODE}

(* C39: when extract_credentials has returned, whatever it launched or
   spawned has been shut down: a launched browser had its close attempted,
   the handler task and the local proxy task, if started, are aborted *)
C39_AllShutDown ==
    (epc = "none" /\ cpc \notin {"extract_init", "extract_expired"}) =>
        /\ browser \in {"none", "closed", "close_failed"}
        /\ handler_task \in {"none", "aborted"}
        /\ local_proxy_task \in {"none", "aborted"}

(* ---------------------------------------------------------------------- *)
(* track_multiple: the returned list                                       *)
(* ---------------------------------------------------------------------- *)

(* C35: a call that returns successfully returns exactly one shipment per
   input tracking number, the i-th shipment carrying the i-th input number,
   also when a number occurs twice in the input or a response held numbers
   that were not requested *)
C35_OnePerInput ==
    (cpc = "returned" /\ result.kind = "ok") =>
        /\ Len(result.shipments) = Len(tracking_numbers)
        /\ \A i \in 1..Len(tracking_numbers) :
              i <= Len(result.shipments)
                 => result.shipments[i].number = tracking_numbers[i]

(* ---------------------------------------------------------------------- *)
(* track_multiple: the classification of one response shipment            *)
(* ---------------------------------------------------------------------- *)

(* detail whose only events are those of a provider *)
ProviderDetail ==
    Some([tracking |-> Some([providers |-> Some(<< [events |-> << "event" >>] >>)]),
          latest_event |-> None])

(* detail with a provider that has no event *)
EmptyProviderDetail ==
    Some([tracking |-> Some([providers |-> Some(<< [events |-> <<>>] >>)]),
          latest_event |-> None])

(* the shipments a response is probed with: every class of code, detail
   and suggestion, for each number *)
ProbeShipments ==
    { [code |-> s.code, number |-> n, carrier |-> AUTO, extra |-> s.extra,
       shipment |-> s.shipment] :
        n \in Numbers,
        s \in { [code |-> 100, extra |-> None, shipment |-> NoDetail],
                [code |-> 200, extra |-> None, shipment |-> NoDetail],
                [code |-> 200, extra |-> None, shipment |-> EmptyDetail],
                [code |-> 200, extra |-> None, shipment |-> EmptyProviderDetail],
                [code |-> 200, extra |-> None, shipment |-> EventDetail],
                [code |-> 200, extra |-> None, shipment |-> ProviderDetail],
                [code |-> 400, extra |-> Some(<< [multi |-> << DHL, FEDEX >>] >>),
                 shipment |-> NoDetail],
                [code |-> 400, extra |-> Some(<< [multi |-> <<>>] >>),
                 shipment |-> NoDetail],
                [code |-> 400, extra |-> None, shipment |-> NoDetail],
                [code |-> 500, extra |-> None, shipment |-> NoDetail],
                [code |-> 500, extra |-> Some(<< [multi |-> << DHL >>] >>),
                 shipment |-> NoDetail] } }

(* the carriers a shipment suggests *)
SuggestedBy(sh) ==
    IF sh.extra = None THEN {}
    ELSE UNION { { e.multi[i] : i \in DOMAIN e.multi } :
                   e \in { Unwrap(sh.extra)[j] : j \in DOMAIN Unwrap(sh.extra) } }

(* the detail holds an event, of the shipment or of one of its providers *)
HoldsEvent(d) ==
    \/ d.latest_event # None
    \/ /\ d.tracking # None
       /\ Unwrap(d.tracking).providers # None
       /\ \E p \in { Unwrap(Unwrap(d.tracking).providers)[i] :
                       i \in DOMAIN Unwrap(Unwrap(d.tracking).providers) } :
             Len(p.events) > 0

(* the class the claim gives a response shipment *)
ClassOf(sh) ==
    IF sh.code = 400 /\ SuggestedBy(sh) # {} THEN "suggestion"
    ELSE IF \/ sh.code = 100
            \/ sh.code = 200 /\ sh.shipment = None
            \/ sh.code = 200 /\ sh.shipment # None /\ ~HoldsEvent(Unwrap(sh.shipment))
      THEN "pending"
      ELSE "resolved"

C34_OneShipment(sh) ==
    LET done == ProcessShipments(<< sh >>, items, final_shipments)
        first(i) == /\ items[i].num = sh.number
                    /\ \A k \in 1..(i - 1) : items[k].num # sh.number
    IN /\ ClassOf(sh) = "suggestion"
            => /\ done.final = final_shipments
               /\ DOMAIN done.items = DOMAIN items
               /\ \A i \in DOMAIN items :
                     IF first(i)
                       THEN /\ done.items[i].num = items[i].num
                            /\ done.items[i].fc \in SuggestedBy(sh)
                       ELSE done.items[i] = items[i]
       /\ ClassOf(sh) = "pending"
            => /\ done.final = final_shipments
               /\ done.items = items
       /\ ClassOf(sh) = "resolved"
            => /\ done.items = items
               /\ done.final[sh.number] = Some(sh)
               /\ \A n \in Numbers \ {sh.number} :
                     done.final[n] = final_shipments[n]
               /\ \A i \in DOMAIN PendingItems(done.items, done.final) :
                     PendingItems(done.items, done.final)[i].num # sh.number

(* C34: a response shipment with code 400 and a suggested carrier updates
   the carrier of the (first) item with its number and is not stored; one
   with code 100, or with code 200 and no detail or a detail without any
   event, is not stored and changes nothing; every other shipment is stored
   under its number at once, and a number that has an entry keeps one until
   the call ends and is in no later request *)
C34_Classification ==
    /\ [](cpc = "await" =>
            /\ \A sh \in ProbeShipments : C34_OneShipment(sh)
            /\ \A i \in DOMAIN Unwrap(request).data :
                  final_shipments[Unwrap(request).data[i].num] = None)
    /\ [][cpc' # "idle" =>
            \A n \in Numbers :
                final_shipments[n] # None => final_shipments'[n] # None]_vars

(* C34 witness: a two-number call is waiting for a response after a
   suggestion changed the carrier of its first item, which is still
   pending, and a response shipment resolved its second *)
C34_Witness ==
    /\ cpc = "await"
    /\ tracking_numbers = << "A", "B" >>
    /\ items[1].fc # AUTO
    /\ final_shipments["A"] = None
    /\ final_shipments["B"] # None
    /\ Len(Unwrap(request).data) = 1

(* ---------------------------------------------------------------------- *)
(* make_request and the cached credentials                                 *)
(* ---------------------------------------------------------------------- *)

(* C40: whenever a request is in flight the client's credentials are
   present and are the ones the request was signed with, and no call ever
   ended in the panic of unwrapping absent credentials (the only panic is
   the index into an empty input when there are no credentials) *)
C40_CredentialsAtRequest ==
    /\ cpc = "await" =>
          /\ client_credentials # None
          /\ request # None
          /\ Unwrap(request).sign = Unwrap(client_credentials).sign
    /\ result.kind = "panic" =>
          /\ tracking_numbers = <<>>
          /\ client_credentials = None

(* C40 witness: the request sent again after an expiry response and a new
   extraction is in flight *)
C40_Witness ==
    /\ cpc = "await"
    /\ log = << LogResponse(INVALID_SIGN_CODE), LogInvalidation >>
    /\ client_credentials # None

(* ---------------------------------------------------------------------- *)
(* CredentialCache: what a refresh leaves behind                           *)
(* ---------------------------------------------------------------------- *)

(* C36: whenever the cache holds a credential and cached assets, the
   credential's configs_md5 is that of the cached assets *)
C36_CredentialMatchesAssets ==
    (IsSome(credentials) /\ IsSome(cached_assets)) =>
        Unwrap(credentials).configs_md5 = Unwrap(cached_assets).configs_md5

(* the step by which the refresh_credentials call of task t returns Err *)
RefreshFails(t) ==
    /\ pc[t] \in {"r_fetch", "r_v8"}
    /\ pc'[t] = "idle"
    /\ ret'[t] = [op |-> "refresh", ok |-> FALSE, cred |-> None]

(* C38 as stated: a refresh_credentials call that returns an error has
   stored nothing: neither a credential nor a bundle *)
C38_ErrorLeavesCache ==
    [][\A t \in Tasks :
          RefreshFails(t) => /\ ~t_stored[t]
                             /\ credentials' = credentials
                             /\ cached_assets' = cached_assets]_vars

(* C38, amended: the only step of a refresh_credentials call that writes
   the credential is the one that returns Ok with it, so a call that
   returns an error has not changed the credential; the returning step
   changes nothing; a call whose fetch failed has stored no bundle, and a
   call whose sandbox run failed after its own fetch has stored the
   fetched bundle *)
C38_ErrorKeepsCredential ==
    [][/\ \A t \in Tasks :
            RefreshFails(t) => /\ credentials' = credentials
                               /\ cached_assets' = cached_assets
                               /\ pc[t] = "r_fetch" => ~t_stored[t]
       /\ (credentials' # credentials /\ credentials' # None) =>
            \E t \in Tasks : /\ pc[t] = "r_store_creds"
                             /\ pc'[t] = "idle"
                             /\ ret'[t] = [op |-> "refresh", ok |-> TRUE,
                                           cred |-> credentials']
       /\ \A t \in Tasks :
            (t_stored'[t] /\ ~t_stored[t]) => /\ pc[t] = "r_store_assets"
                                              /\ cached_assets' = t_assets[t]
                                              /\ t_assets[t] # None]_vars

(* C38 witness: a call has returned an error from its sandbox run after
   storing the bundle it fetched, which is still the cached one, and no
   credential is stored *)
C38_Witness ==
    \E t \in Tasks :
        /\ pc[t] = "idle"
        /\ ret[t] = [op |-> "refresh", ok |-> FALSE, cred |-> None]
        /\ fetchCount = 1 /\ sandboxCount = 1 /\ calls = 1
        /\ cached_assets # None
        /\ credentials = None

(* C37: no get_valid_credentials call returns a credential stored by a
   refresh_credentials call that had started before an invalidate which
   completed before the credential was stored *)
C37_NoCredentialFromBeforeInvalidate ==
    [][\A t \in Tasks :
          (pc[t] = "g_read" /\ pc'[t] = "idle" /\ ret'[t].cred # None)
             => ~cred_invalidated]_vars

====
